---------------------------- MODULE Spec2Model ----------------------------
(***************************************************************************)
(* Dual-mode proxy of arrakis: the socket relay session (websocketProxy    *)
(* and websocketHandler in their several versions), the backend resolver   *)
(* (discoverCDPPort) and the request path of the dynamic-discovery server  *)
(* (router, healthCheck, proxyHandler).                                    *)
(*                                                                         *)
(* A relay session is one handler goroutine and two forwarding goroutines  *)
(* ("c2b": inbound -> backend, "b2c": backend -> inbound) that share the   *)
(* completion channel `done`.  Every action is one step of one goroutine   *)
(* or one event of the environment (a peer going away).                    *)
(***************************************************************************)
EXTENDS Integers, Sequences, FiniteSets, TLC

\* Most messages the two peers send within one session, both directions
\* taken together.
MaxMsgs == 3

Tasks == {"c2b", "b2c"}
Sides == {"client", "chrome"}

\* gorilla/websocket data message kinds carried by ReadMessage/WriteMessage.
MsgTypes == {"Text", "Binary"}
Payloads == {"p"}
Msgs == [type : MsgTypes, data : Payloads]
NoMsg == [type |-> "none", data |-> ""]

\* The connection a task reads from and the one it writes to.
Src(t) == IF t = "c2b" THEN "client" ELSE "chrome"

\* Mutant of Dst: both tasks write to the inbound connection.
DstInbound(t) == "client"

Dst(t) == IF t = "c2b" THEN "chrome" ELSE "client"

VARIABLES
    version,    \* which version of the handler the process was built from
    hpc,        \* position of the handler goroutine
    tpc,        \* position of each forwarding goroutine
    done,       \* the completion channel: "nil", "open" or "closed"
    closeCalls, \* number of close(done) statements executed
    onceDone,   \* sync.Once: the function has been run
    panicking,  \* per task: a panic is unwinding the goroutine
    faulted,    \* per task: a panic was raised in the task at some point
    failed,     \* per task: a read or write of the task returned an error
    aborted,    \* the process was terminated by an unrecovered panic
    conn,       \* per side: our end of the connection: "none", "open", "closed"
    peer,       \* per side: the remote end: "up" or "gone"
    held,       \* per task: the message read and not yet written
    readLog,    \* per task: messages returned by ReadMessage, in order
    writeLog,   \* per task: messages accepted by WriteMessage, in order
    ctlLog,     \* close codes the handler wrote to the inbound connection
    upgraded,   \* outcome of upgrader.Upgrade: "pending", "ok", "failed"
    dials,      \* number of Dial calls made to the backend
    apiReply,   \* what the control plane answers to GET /v1/vms
    reqName,    \* the vmName argument of discoverCDPPort
    res,        \* what discoverCDPPort returned, NoRes before the call
    req,        \* the inbound request: method, path, query, upgrade intent
    ppc,        \* position of the request in the router and proxyHandler
    listCalls,  \* number of GET /v1/vms calls made for the request
    httpCalls,  \* number of client.Do calls made for the request
    sent,       \* the requests sent to the backend (client.Do and Dial)
    resp,       \* the responses written to the caller, in order
    backend,    \* how the backend behaves for the forwarded request
    bstatus,    \* status code of the backend's response, 0 before it
    ferr,       \* which step of the forward failed, "none" if none did
    elapsed,    \* seconds since client.Do was called
    bresp,      \* header and body of the backend's response, once read
    out,        \* header and body the caller was given for a forward
    rw,         \* a rewrite taken alone: body, public host, the outputs
    served,     \* number of requests served before the current one
    prevRes,    \* what discoverCDPPort returned for the request before
    ss,         \* the requests and sessions that run concurrently
    srv,        \* the http.Server: serving, shutting down, exited
    cfg         \* a configuration file and what a getter of pkg/config made of it

relayVars == <<hpc, tpc, done, closeCalls, onceDone, panicking, faulted,
               failed, aborted, conn, peer, held, readLog, writeLog, ctlLog,
               upgraded, dials>>

resolveVars == <<apiReply, reqName, res>>

proxyVars == <<req, ppc, listCalls, httpCalls, sent, resp, backend, bstatus,
               ferr, elapsed>>

auxVars == <<bresp, out, rw, served, prevRes, ss, srv, cfg>>

vars == <<version, relayVars, resolveVars, proxyVars, auxVars>>

(***************************************************************************)
(* The backend resolver: discoverCDPPort of the dynamic-discovery server.  *)
(***************************************************************************)

\* Most machines in one listing, most port forwards of one machine.
MaxVMs == 2
MaxPF == 2

VMNames == {"a", "b"}
Statuses == {"RUNNING", "STOPPED"}

\* (description, guest port) of a port forward: the forwarded CDP port, and
\* Chrome's own port under the same description.  The host port is assigned
\* by the control plane and differs from entry to entry.
PFKinds == {<<"cdp", "9223">>, <<"cdp", "9222">>}

SeqsUpTo(S, n) == UNION {[1..k -> S] : k \in 0..n}

\* The host port of the j-th port forward of the i-th machine of a listing.
HostPortAt(i, j) == <<"hostPort", i, j>>

\* The zero values of the results on an error return: "" and VM{}.
NoPort == << >>
NoVM == [VMName |-> "", Status |-> "", PortForwards |-> << >>]

\* The listings the control plane can return: VMResponse.VMs decoded, with
\* at most nv machines of at most np port forwards each.
ListingsOf(nv, np) ==
    {[i \in 1..Len(shape) |->
        [VMName |-> shape[i].name,
         Status |-> shape[i].status,
         PortForwards |->
            [j \in 1..Len(shape[i].pfs) |->
                [Description |-> shape[i].pfs[j][1],
                 GuestPort |-> shape[i].pfs[j][2],
                 HostPort |-> HostPortAt(i, j)]]]] :
     shape \in SeqsUpTo([name : VMNames, status : Statuses,
                         pfs : SeqsUpTo(PFKinds, np)], nv)}

Listings == ListingsOf(MaxVMs, MaxPF)

\* Answers to the listing call: a decodable listing, or one of the failures
\* of http.Get, io.ReadAll and json.Unmarshal.
Replies ==
    [kind : {"ok"}, vms : Listings]
        \cup [kind : {"unreachable", "unreadable", "malformed"}, vms : {<< >>}]

\* pf.GuestPort == "9223" && pf.Description == "cdp"
IsCDPForward(pf) == pf.GuestPort = "9223" /\ pf.Description = "cdp"

\* Mutant of FirstCDPForward: the scan keeps the last matching entry.
LastCDPForward(pfs) ==
    IF \E j \in 1..Len(pfs) : IsCDPForward(pfs[j])
    THEN CHOOSE j \in 1..Len(pfs) :
            /\ IsCDPForward(pfs[j])
            /\ \A k \in (j + 1)..Len(pfs) : ~IsCDPForward(pfs[k])
    ELSE 0

\* Index of the first port forward of the list that the inner loop returns
\* on, 0 if it runs to the end.
FirstCDPForward(pfs) ==
    IF \E j \in 1..Len(pfs) : IsCDPForward(pfs[j])
    THEN CHOOSE j \in 1..Len(pfs) :
            /\ IsCDPForward(pfs[j])
            /\ \A k \in 1..(j - 1) : ~IsCDPForward(pfs[k])
    ELSE 0

\* Mutant of Scanned: the status of the machine is not tested.
ScannedAnyStatus(vm, vmName) == vmName = "" \/ vm.VMName = vmName

\* Mutant of Scanned: the `continue` for other names is missing.
ScannedAnyName(vm, vmName) == vm.Status = "RUNNING"

\* The machines whose port forwards the outer loop scans: status RUNNING, and
\* the requested name if one was given (`continue` otherwise).
Scanned(vm, vmName) ==
    /\ vm.Status = "RUNNING"
    /\ vmName = "" \/ vm.VMName = vmName

\* Mutant of NotFoundErr: one error for both cases.
NotFoundErrSame(vmName) == "no running VM found"

\* The error returned after the loop found nothing: by name if one was given.
NotFoundErr(vmName) ==
    IF vmName # "" THEN "not found or not running with CDP"
    ELSE "no running VM found"

\* The outer loop over vmResponse.VMs, then the two error returns.
SelectVM(vms, vmName) ==
    LET hits == {i \in 1..Len(vms) :
                    /\ Scanned(vms[i], vmName)
                    /\ FirstCDPForward(vms[i].PortForwards) # 0}
    IN  IF hits # {}
        THEN LET i == CHOOSE h \in hits : \A g \in hits : h <= g
                 vm == vms[i]
             IN  [ok |-> TRUE,
                  hostPort |-> vm.PortForwards[FirstCDPForward(vm.PortForwards)].HostPort,
                  vm |-> vm,
                  err |-> ""]
        ELSE [ok |-> FALSE, hostPort |-> NoPort, vm |-> NoVM,
              err |-> NotFoundErr(vmName)]

\* discoverCDPPort(vmName) against the control plane's answer.
discoverCDPPort(reply, vmName) ==
    CASE reply.kind = "unreachable" ->
            [ok |-> FALSE, hostPort |-> NoPort, vm |-> NoVM,
             err |-> "failed to query VM API"]
      [] reply.kind = "unreadable" ->
            [ok |-> FALSE, hostPort |-> NoPort, vm |-> NoVM,
             err |-> "failed to read response"]
      [] reply.kind = "malformed" ->
            [ok |-> FALSE, hostPort |-> NoPort, vm |-> NoVM,
             err |-> "failed to parse VM response"]
      [] OTHER -> SelectVM(reply.vms, vmName)

(***************************************************************************)
(* Inbound requests, the routes registered in main and the query handling  *)
(* of proxyHandler and websocketProxy.                                     *)
(***************************************************************************)

\* Most parameters in the query string of an inbound request.
MaxQuery == 2

Methods == {"GET", "POST"}

\* Request paths, as segments: the liveness path, the default paths and the
\* named-backend paths.
Paths ==
    {<<"health">>, <<"json">>, <<"devtools", "x">>}
        \cup {<<"vm", n, "json">> : n \in VMNames}
        \cup {<<"vm", n, "devtools", "x">> : n \in VMNames}

\* Decoded (key, value) pairs of a query string, in the order of the string.
\* Keys in sort.Strings order.
SortedKeys == <<"a", "b", "vm">>
QueryPairs ==
    {<<"b", "1">>, <<"a", "1">>, <<"a", "2">>, <<"vm", "">>, <<"vm", "b">>}

Requests ==
    [method : Methods, path : Paths, query : SeqsUpTo(QueryPairs, MaxQuery),
     upgrade : BOOLEAN]

\* Mutant of Route: /health is served by proxyHandler.
RouteHealthToProxy(r) ==
    IF r.path[Len(r.path)] = "json" /\ r.method # "GET" THEN "reject"
    ELSE "proxy"

\* Which handler the router gives a request to: HandleFunc(...).Methods("GET")
\* for /health and the json paths, PathPrefix(...) for the devtools paths;
\* mux answers 405 itself when the path matches and the method does not.
Route(r) ==
    LET last == r.path[Len(r.path)]
    IN  IF last \in {"health", "json"} /\ r.method # "GET" THEN "reject"
        ELSE IF last = "health" THEN "health"
        ELSE "proxy"

\* Mutant of MuxVars: the route variable is never found.
MuxVarsNone(r) == ""

\* mux.Vars(r)["vmName"]: the {vmName} segment of a /vm/{vmName}/... route,
\* "" when the route has no such variable.
MuxVars(r) == IF r.path[1] = "vm" THEN r.path[2] ELSE ""

\* url.Values[key]: the values of the key, in the order of the query string.
ValuesOf(q, key) ==
    LET ps == SelectSeq(q, LAMBDA p : p[1] = key)
    IN  [i \in 1..Len(ps) |-> ps[i][2]]

\* r.URL.Query().Get(key): the first value of the key, "" if it has none.
QueryGet(q, key) ==
    IF ValuesOf(q, key) = << >> THEN "" ELSE Head(ValuesOf(q, key))

\* Mutant of TargetName: the query parameter is not looked at.
TargetNameFromPath(r) == MuxVars(r)

\* The vmName that proxyHandler passes to discoverCDPPort.
TargetName(r) ==
    IF QueryGet(r.query, "vm") # "" THEN QueryGet(r.query, "vm")
    ELSE MuxVars(r)

\* Mutant of QueryDel: nothing is deleted.
QueryDelNothing(q, key) == q

\* values.Del(key): every pair of the key is gone.
QueryDel(q, key) == SelectSeq(q, LAMBDA p : p[1] # key)

RECURSIVE EncodeFrom(_, _)
\* values.Encode(): the pairs grouped by key, the keys in sorted order, the
\* values of one key in their order.
EncodeFrom(q, i) ==
    IF i > Len(SortedKeys) THEN << >>
    ELSE SelectSeq(q, LAMBDA p : p[1] = SortedKeys[i]) \o EncodeFrom(q, i + 1)

QueryEncode(q) == EncodeFrom(q, 1)

\* The query string of the backend URL: `?` + values.Encode() when a
\* parameter is left after values.Del("vm"), nothing otherwise.
TargetQuery(r) == QueryEncode(QueryDel(r.query, "vm"))

\* The request the plain forward sends: http.NewRequest(r.Method, targetURL).
TargetURL(r, hostPort) ==
    [scheme |-> "http", port |-> hostPort, method |-> r.method,
     path |-> r.path, query |-> TargetQuery(r)]

\* The handshake request Dial sends to chromeURL (always a GET).
ChromeURL(r, hostPort) ==
    [scheme |-> "ws", port |-> hostPort, method |-> "GET",
     path |-> r.path, query |-> TargetQuery(r)]

(***************************************************************************)
(* The response rewrite of proxyHandler.  A body is a sequence of pieces   *)
(* of text: the pieces the four patterns are made of, a further digit of   *)
(* a port number and any other text.                                       *)
(***************************************************************************)

\* Most pieces of text in a body that is rewritten alone.
MaxBody == 4

\* fmt.Sprintf("127.0.0.1:%s", forwardedPort)
ChromePattern(forwardedPort) == "127.0.0.1:" \o forwardedPort

\* The pieces of text of a body; "1" continues a port number, "x" is any
\* other text.
BodyTokens ==
    {"ws://", "\"", "?", "ws=", "/devtools/", ChromePattern("9223"), "1", "x"}

Bodies == SeqsUpTo(BodyTokens, MaxBody)

\* Values of r.Host: a public name, the backend address itself, and a host
\* that begins with the backend address (127.0.0.1:92231).
PublicHosts ==
    {<<"example.com:7000">>, <<ChromePattern("9223")>>,
     <<ChromePattern("9223"), "1">>}

\* s.port, from the configuration (config.yaml: port "2999").
ListenPort == "2999"

\* hostURL: r.Host, or localhost with the server's port when it is empty.
HostURL(host) == IF host = << >> THEN <<"localhost:" \o ListenPort>> ELSE host

\* forwardedPort: "9223", or the guest port of the first port forward of
\* the machine whose description is "cdp".
ForwardedPort(vm) ==
    LET hits == {j \in 1..Len(vm.PortForwards) :
                    vm.PortForwards[j].Description = "cdp"}
    IN  IF hits = {} THEN "9223"
        ELSE vm.PortForwards[CHOOSE j \in hits : \A k \in hits : j <= k].GuestPort

RECURSIVE ReplaceAll(_, _, _)
\* strings.ReplaceAll(s, old, new): the occurrences of old that do not
\* overlap, from the left, are replaced by new.
ReplaceAll(s, old, new) ==
    IF Len(s) < Len(old) THEN s
    ELSE IF SubSeq(s, 1, Len(old)) = old
         THEN new \o ReplaceAll(SubSeq(s, Len(old) + 1, Len(s)), old, new)
         ELSE <<Head(s)>> \o ReplaceAll(Tail(s), old, new)

\* Mutant of Rewrite: the third replacement is made for every host.
RewriteAnyHost(body, chromePattern, hostURL) ==
    ReplaceAll(body, <<"ws://">>, <<"ws://">> \o hostURL)

\* The four strings.ReplaceAll calls, in the order of the code.
Rewrite(body, chromePattern, hostURL) ==
    LET s1 == ReplaceAll(body,
                  <<"ws://", chromePattern, "/devtools/">>,
                  <<"ws://">> \o hostURL \o <<"/devtools/">>)
        s2 == ReplaceAll(s1,
                  <<"\"", "ws=", chromePattern, "/devtools/">>,
                  <<"\"", "ws=">> \o hostURL \o <<"/devtools/">>)
        s3 == ReplaceAll(s2,
                  <<"ws://", chromePattern>>,
                  <<"ws://">> \o hostURL)
    IN  ReplaceAll(s3,
            <<"?", "ws=", chromePattern, "/devtools/">>,
            <<"?", "ws=">> \o hostURL \o <<"/devtools/">>)

RECURSIVE ByteLen(_)
\* len() of the text a sequence of pieces stands for.
ByteLen(s) == IF s = << >> THEN 0 ELSE Len(Head(s)) + ByteLen(Tail(s))

\* Bodies a backend answers a forwarded request with: text without an
\* address, and the JSON of the version endpoint with its socket URL.
ProxyBodies ==
    {<<"x">>, <<"ws://", ChromePattern("9223"), "/devtools/", "x">>}

\* The backend's response header and body: the body is sent with its
\* Content-Length, or chunked with none.
BackendResponses ==
    {[header |-> [ContentType |-> <<"application/json">>,
                  ContentLength |-> cl],
      body |-> b] :
        b \in ProxyBodies, cl \in {<< >>} } \cup
    {[header |-> [ContentType |-> <<"application/json">>,
                  ContentLength |-> <<ByteLen(b)>>],
      body |-> b] : b \in ProxyBodies}

\* Values of r.Host of a forwarded request: none, or a public name.
ProxyHosts == {<< >>, <<"example.com:7000">>}

RECURSIVE AddValues(_, _)
\* w.Header().Add(key, value) for the values of one key, in order.
AddValues(have, values) ==
    IF values = << >> THEN have
    ELSE AddValues(Append(have, Head(values)), Tail(values))

\* The loop over resp.Header: every value of every key is added to the
\* header of the ResponseWriter, which is empty before.
CopyHeader(header) ==
    [key \in DOMAIN header |-> AddValues(<< >>, header[key])]

\* What the net/http server sends of the body given to w.Write once the
\* header is written: with a declared Content-Length, a Write that goes
\* beyond it is refused whole (ErrContentLength).
ServerWrite(header, data) ==
    IF header.ContentLength # << >> /\ ByteLen(data) > header.ContentLength[1]
    THEN << >>
    ELSE data

\* What the caller is given for the backend's response br: the body is
\* rewritten for the host of the request, the backend's header is copied,
\* and the rewritten body is given to w.Write.
Relay(br, forwardedPort, host) ==
    LET jsonOutput == Rewrite(br.body, ChromePattern(forwardedPort),
                              HostURL(host))
        header == CopyHeader(br.header)
    IN  [host |-> host, header |-> header, written |-> jsonOutput,
         body |-> ServerWrite(header, jsonOutput)]

\* Relay, for the responses, guest ports and hosts of a forward.
Relayed ==
    [br \in BackendResponses, forwardedPort \in {pk[2] : pk \in PFKinds},
     host \in ProxyHosts |-> Relay(br, forwardedPort, host)]

\* seconds of http.Client{Timeout: 30 * time.Second}
Timeout == 30

\* How the backend treats a forwarded request: it answers; it sends the
\* response head and then stalls or breaks off; it fails the connection; it
\* accepts the connection and never responds.
BackendModes == {"ok", "stall", "refuse", "silent"}
BackendStatuses == {200, 404}

NoRes == [ok |-> FALSE, hostPort |-> NoPort, vm |-> NoVM, err |-> "none"]

\* No resolution in progress.
IdleResolve ==
    /\ apiReply = [kind |-> "ok", vms |-> << >>]
    /\ reqName = ""
    /\ res = NoRes

\* The request of a relay session: an upgrade request on a default path.
RelayRequest ==
    [method |-> "GET", path |-> <<"devtools", "x">>, query |-> << >>,
     upgrade |-> TRUE]

\* A listing with one running machine that exposes the debugging port.
RelayReply ==
    [kind |-> "ok",
     vms |-> <<[VMName |-> "a", Status |-> "RUNNING",
                PortForwards |-> <<[Description |-> "cdp",
                                    GuestPort |-> "9223",
                                    HostPort |-> HostPortAt(1, 1)]>>]>>]

\* http.Header with no entry.
NoHeader == [ContentType |-> << >>, ContentLength |-> << >>]

\* Nothing read from a backend, nothing given to the caller.
NoBackendResponse == [header |-> NoHeader, body |-> << >>]
NoOut ==
    [host |-> << >>, header |-> NoHeader, written |-> << >>, body |-> << >>]

\* No configuration file is looked at.
NoConfigCall == [file |-> << >>, readable |-> TRUE, getter |-> "none",
                 result |-> [ok |-> FALSE, Port |-> << >>, err |-> ""]]

\* No rewrite is looked at in isolation.
NoRewrite == [body |-> << >>, host |-> << >>, outs |-> << >>]

\* The server accepts requests; no shutdown was asked for.
Serving == [phase |-> "serving", listener |-> "open", clock |-> 0]

\* One request or session is looked at alone: it is the first one, no
\* other runs beside it, the server is not shutting down.
Alone ==
    /\ rw = NoRewrite
    /\ served = 0
    /\ prevRes = NoRes
    /\ ss = << >>
    /\ srv = Serving
    /\ cfg = NoConfigCall

\* No forward in progress for request r, which is at position pc after n
\* listing calls.
NoForward(r, pc, n) ==
    /\ bresp = NoBackendResponse
    /\ out = NoOut
    /\ req = r
    /\ ppc = pc
    /\ listCalls = n
    /\ httpCalls = 0
    /\ sent = << >>
    /\ resp = << >>
    /\ backend = "none"
    /\ bstatus = 0
    /\ ferr = "none"
    /\ elapsed = 0

\* proxyHandler of the dynamic-discovery server has resolved the backend of
\* RelayRequest and is about to test websocket.IsWebSocketUpgrade(r).
Dispatched ==
    /\ apiReply = RelayReply
    /\ reqName = TargetName(RelayRequest)
    /\ res = discoverCDPPort(RelayReply, TargetName(RelayRequest))
    /\ NoForward(RelayRequest, "branch", 1)
    /\ Alone

\* State of a session before its request is dispatched to the handler.
InitRelayOnly ==
    /\ hpc = "idle"
    /\ tpc = [t \in Tasks |-> "none"]
    /\ done = "nil"
    /\ closeCalls = 0
    /\ onceDone = FALSE
    /\ panicking = [t \in Tasks |-> FALSE]
    /\ faulted = [t \in Tasks |-> FALSE]
    /\ failed = [t \in Tasks |-> FALSE]
    /\ aborted = FALSE
    /\ conn = [s \in Sides |-> "none"]
    /\ peer = [s \in Sides |-> "up"]
    /\ held = [t \in Tasks |-> NoMsg]
    /\ readLog = [t \in Tasks |-> << >>]
    /\ writeLog = [t \in Tasks |-> << >>]
    /\ ctlLog = << >>
    /\ upgraded = "pending"
    /\ dials = 0

\* The handlers of cmd/cdpserver and cmd/novncserver relay to a configured
\* port: no resolution precedes the session.
InitRelay ==
    /\ IdleResolve /\ InitRelayOnly
    /\ NoForward(RelayRequest, "branch", 0)
    /\ Alone

\* The dynamic-discovery CDP server (websocketProxy guarded by sync.Once).
Init == version = "discovery" /\ InitRelayOnly /\ Dispatched

\* The versions of the relay held by the repository:
\*   "discovery"  websocketProxy of the dynamic-discovery CDP server (sync.Once)
\*   "select1"    cmd/cdpserver websocketProxy, first version (recover, the
\*                loop polls `done`, select/default guard around close(done))
\*   "select2"    cmd/cdpserver websocketProxy, second version (select/default
\*                guard only)
\*   "novnc"      cmd/novncserver websocketHandler with a `done` channel; its
\*                `conn` is side "client" and its `vncConn` side "chrome"
\*   "novnc2"     novncserver websocketHandler without a completion channel
\*                (src/unnamed/part_002): the handler runs the VNC->WebSocket
\*                loop itself, the spawned goroutine closes the VNC connection
Versions == {"discovery", "select1", "select2", "novnc", "novnc2"}

\* Where a task's loop starts: only the first cdpserver version polls `done`
\* (select { case <-done: return; default: ... }) before each read.
LoopHead == IF version = "select1" THEN "loop" ELSE "read"

\* Where a task continues when it leaves its loop: in its deferred function,
\* which starts with recover() where the version has one and with the select
\* on `done` otherwise; the noVNC tasks go straight to close(done).
DeferEntry ==
    CASE version = "select2" -> "sel"
      [] version = "novnc" -> "close"
      [] version = "novnc2" -> "break"
      [] OTHER -> "defer"

\* What a task can read: websocket data messages, or raw bytes from the VNC
\* TCP connection.
InMsgs(t) ==
    IF version \in {"novnc", "novnc2"} /\ t = "b2c" THEN [type : {"raw"}, data : Payloads]
    ELSE Msgs

\* Mutant of Wire: every message is forwarded as a text message.
WireAsText(t, m) == [type |-> "Text", data |-> m.data]

\* What a task hands to the write call for message m: the CDP relays pass
\* messageType and data on; the noVNC relay writes the payload to the TCP
\* connection, and wraps bytes from it in a binary message.
Wire(t, m) ==
    IF version \in {"novnc", "novnc2"}
    THEN [type |-> IF t = "c2b" THEN "raw" ELSE "Binary", data |-> m.data]
    ELSE m

(***************************************************************************)
(* The handler goroutine of websocketProxy (dynamic-discovery version).    *)
(***************************************************************************)

\* The close code of the frame sent when the backend cannot be dialed:
\* FormatCloseMessage(1002, ...); websocket.CloseInternalServerErr (1011) in
\* the noVNC server; the second cdpserver version sends a text with no code.
NotifyCode ==
    CASE version \in {"novnc", "novnc2"} -> 1011
      [] version = "select2" -> 0
      [] OTHER -> 1002

\* proxyHandler calls websocketProxy for a request with upgrade intent.
HandlerStart ==
    /\ ~aborted /\ hpc = "idle"
    /\ ppc = "branch" /\ req.upgrade
    /\ hpc' = "upgrade"
    /\ ppc' = "relay"
    /\ UNCHANGED <<req, listCalls, httpCalls, sent, resp, backend, bstatus,
                   ferr, elapsed>>
    /\ UNCHANGED <<auxVars, resolveVars, version, tpc, done, closeCalls, onceDone,
                   panicking, faulted, failed, aborted, conn, peer, held,
                   readLog, writeLog, ctlLog, upgraded, dials>>

\* Mutant of HandlerUpgrade: the error branch lacks its `return`.
HandlerUpgradeNoReturn ==
    /\ ~aborted /\ hpc = "upgrade"
    /\ \E ok \in IF req.method = "GET" THEN BOOLEAN ELSE {FALSE} :
         IF ok
         THEN /\ upgraded' = "ok"
              /\ conn' = [conn EXCEPT !["client"] = "open"]
         ELSE /\ upgraded' = "failed"
              /\ conn' = conn
    /\ hpc' = "dial"
    /\ UNCHANGED <<auxVars, proxyVars, resolveVars, version,
                   tpc, done, closeCalls, onceDone,
                   panicking, faulted, failed, aborted, peer, held, readLog,
                   writeLog, ctlLog, dials>>

\* upgrader.Upgrade: on error the handler logs and returns at once.
HandlerUpgrade ==
    /\ ~aborted /\ hpc = "upgrade"
    /\ \E ok \in IF req.method = "GET" THEN BOOLEAN ELSE {FALSE} :
         IF ok
         THEN /\ upgraded' = "ok"
              /\ conn' = [conn EXCEPT !["client"] = "open"]
              /\ hpc' = "dial"
         ELSE /\ upgraded' = "failed"
              /\ conn' = conn
              /\ hpc' = "closed"
    /\ UNCHANGED <<auxVars, proxyVars, resolveVars, version,
                   tpc, done, closeCalls, onceDone, panicking, faulted,
                   failed, aborted, peer, held, readLog, writeLog, ctlLog, dials>>

\* Mutant of HandlerDial: the error of Dial is ignored.
HandlerDialIgnoreErr ==
    /\ ~aborted /\ hpc = "dial"
    /\ dials' = dials + 1
    /\ \E ok \in BOOLEAN :
         conn' = IF ok THEN [conn EXCEPT !["chrome"] = "open"] ELSE conn
    /\ hpc' = "spawn1"
    /\ sent' = IF version = "discovery"
               THEN Append(sent, ChromeURL(req, res.hostPort))
               ELSE sent
    /\ UNCHANGED <<req, ppc, listCalls, httpCalls, resp, backend, bstatus,
                   ferr, elapsed>>
    /\ UNCHANGED <<auxVars, resolveVars, version, tpc, done, closeCalls, onceDone,
                   panicking, faulted, failed, aborted, peer, held, readLog,
                   writeLog, ctlLog, upgraded>>

\* websocket.DefaultDialer.Dial to the backend.
HandlerDial ==
    /\ ~aborted /\ hpc = "dial"
    /\ dials' = dials + 1
    /\ \E ok \in BOOLEAN :
         IF ok
         THEN /\ conn' = [conn EXCEPT !["chrome"] = "open"]
              /\ hpc' = "spawn1"
         ELSE /\ conn' = conn
              /\ hpc' = "notify"
    /\ sent' = IF version = "discovery"
               THEN Append(sent, ChromeURL(req, res.hostPort))
               ELSE sent
    /\ UNCHANGED <<req, ppc, listCalls, httpCalls, resp, backend, bstatus,
                   ferr, elapsed>>
    /\ UNCHANGED <<auxVars, resolveVars, version, tpc, done, closeCalls, onceDone,
                   panicking, faulted, failed, aborted, peer, held, readLog,
                   writeLog, ctlLog, upgraded>>

\* Mutant of HandlerNotify: the handler returns without a close frame.
HandlerNotifyNothing ==
    /\ ~aborted /\ hpc = "notify"
    /\ hpc' = "retDial"
    /\ UNCHANGED <<auxVars, proxyVars, resolveVars, version,
                   tpc, done, closeCalls, onceDone,
                   panicking, faulted, failed, aborted, conn, peer, held,
                   readLog, writeLog, ctlLog, upgraded, dials>>

\* Dial failed: one close frame is written to the inbound side (the result of
\* WriteMessage is ignored); then `return`.
HandlerNotify ==
    /\ ~aborted /\ hpc = "notify"
    /\ ctlLog' = Append(ctlLog, NotifyCode)
    /\ hpc' = "retDial"
    /\ UNCHANGED <<auxVars, proxyVars, resolveVars, version,
                   tpc, done, closeCalls, onceDone, panicking, faulted,
                   failed, aborted, conn, peer, held, readLog, writeLog,
                   upgraded, dials>>

\* Return after the dial failure: the deferred clientConn.Close() runs.
HandlerReturnDial ==
    /\ ~aborted /\ hpc = "retDial"
    /\ conn' = [conn EXCEPT !["client"] = "closed"]
    /\ hpc' = "closed"
    /\ UNCHANGED <<auxVars, proxyVars, resolveVars, version,
                   tpc, done, closeCalls, onceDone, panicking, faulted,
                   failed, aborted, peer, held, readLog, writeLog, ctlLog,
                   upgraded, dials>>

\* done := make(chan struct{}); var doneOnce sync.Once; go client->chrome.
HandlerSpawn1 ==
    /\ ~aborted /\ hpc = "spawn1"
    /\ done' = "open"
    /\ tpc' = [tpc EXCEPT !["c2b"] = LoopHead]
    /\ hpc' = "spawn2"
    /\ UNCHANGED <<auxVars, proxyVars, resolveVars, version,
                   closeCalls, onceDone, panicking, faulted, failed,
                   aborted, conn, peer, held, readLog, writeLog, ctlLog,
                   upgraded, dials>>

\* go chrome->client.
HandlerSpawn2 ==
    /\ ~aborted /\ hpc = "spawn2"
    /\ tpc' = [tpc EXCEPT !["b2c"] = LoopHead]
    /\ hpc' = "wait"
    /\ UNCHANGED <<auxVars, proxyVars, resolveVars, version,
                   done, closeCalls, onceDone, panicking, faulted, failed,
                   aborted, conn, peer, held, readLog, writeLog, ctlLog,
                   upgraded, dials>>

\* Mutant of HandlerWait: the wait for `done` also ends on a timeout.
HandlerWaitOrTimeout ==
    /\ ~aborted /\ hpc = "wait"
    /\ hpc' = "retChrome"
    /\ UNCHANGED <<auxVars, proxyVars, resolveVars, version,
                   tpc, done, closeCalls, onceDone, panicking, faulted,
                   failed, aborted, conn, peer, held, readLog, writeLog, ctlLog,
                   upgraded, dials>>

\* <-done
HandlerWait ==
    /\ ~aborted /\ hpc = "wait"
    /\ done = "closed"
    /\ hpc' = "retChrome"
    /\ UNCHANGED <<auxVars, proxyVars, resolveVars, version,
                   tpc, done, closeCalls, onceDone, panicking, faulted,
                   failed, aborted, conn, peer, held, readLog, writeLog, ctlLog,
                   upgraded, dials>>

\* Mutant of HandlerCloseChrome: chromeConn.Close() is not deferred.
HandlerLeakChrome ==
    /\ ~aborted /\ hpc = "retChrome"
    /\ hpc' = "retClient"
    /\ UNCHANGED <<auxVars, proxyVars, resolveVars, version,
                   tpc, done, closeCalls, onceDone,
                   panicking, faulted, failed, aborted, conn, peer, held,
                   readLog, writeLog, ctlLog, upgraded, dials>>

\* Return: the deferred functions run last-in first-out, chromeConn.Close() ...
HandlerCloseChrome ==
    /\ ~aborted /\ hpc = "retChrome"
    /\ conn' = [conn EXCEPT !["chrome"] = "closed"]
    /\ hpc' = "retClient"
    /\ UNCHANGED <<auxVars, proxyVars, resolveVars, version,
                   tpc, done, closeCalls, onceDone, panicking, faulted,
                   failed, aborted, peer, held, readLog, writeLog, ctlLog,
                   upgraded, dials>>

\* ... then clientConn.Close().
HandlerCloseClient ==
    /\ ~aborted /\ hpc = "retClient"
    /\ conn' = [conn EXCEPT !["client"] = "closed"]
    /\ hpc' = "closed"
    /\ UNCHANGED <<auxVars, proxyVars, resolveVars, version,
                   tpc, done, closeCalls, onceDone, panicking, faulted,
                   failed, aborted, peer, held, readLog, writeLog, ctlLog,
                   upgraded, dials>>

(***************************************************************************)
(* The forwarding goroutines.                                              *)
(***************************************************************************)

\* ReadMessage returns the next message of the peer.
TaskReadMsg(t, m) ==
    /\ ~aborted /\ tpc[t] = "read"
    /\ conn[Src(t)] = "open" /\ peer[Src(t)] = "up"
    /\ Len(readLog["c2b"]) + Len(readLog["b2c"]) < MaxMsgs
    /\ held' = [held EXCEPT ![t] = m]
    /\ readLog' = [readLog EXCEPT ![t] = Append(@, m)]
    /\ tpc' = [tpc EXCEPT ![t] = "write"]
    /\ UNCHANGED <<auxVars, proxyVars, resolveVars, version,
                   hpc, done, closeCalls, onceDone, panicking,
                   faulted, failed, aborted, conn, peer, writeLog, ctlLog,
                   upgraded, dials>>

\* ReadMessage returns an error (the peer went away, or the handler closed the
\* connection): the task logs and returns, nothing is retried.
TaskReadFail(t) ==
    /\ ~aborted /\ tpc[t] = "read"
    /\ conn[Src(t)] = "closed" \/ peer[Src(t)] = "gone"
    /\ failed' = [failed EXCEPT ![t] = TRUE]
    /\ tpc' = [tpc EXCEPT ![t] = DeferEntry]
    /\ UNCHANGED <<auxVars, proxyVars, resolveVars, version,
                   hpc, done, closeCalls, onceDone, panicking,
                   faulted, aborted, conn, peer, held, readLog, writeLog, ctlLog,
                   upgraded, dials>>

\* What a write to side s can return: an error once the handler closed the
\* connection, either outcome when the peer is gone, success otherwise.
WriteOutcomes(s) ==
    IF conn[s] = "closed" THEN {FALSE}
    ELSE IF peer[s] = "gone" THEN {TRUE, FALSE}
    ELSE {TRUE}

\* WriteMessage(messageType, data) of the message just read, to the other side;
\* on error the task logs and returns.
TaskWrite(t) ==
    /\ ~aborted /\ tpc[t] = "write"
    /\ \E ok \in WriteOutcomes(Dst(t)) :
         IF ok
         THEN /\ writeLog' = [writeLog EXCEPT ![t] = Append(@, Wire(t, held[t]))]
              /\ failed' = failed
              /\ tpc' = [tpc EXCEPT ![t] = LoopHead]
         ELSE /\ writeLog' = writeLog
              /\ failed' = [failed EXCEPT ![t] = TRUE]
              /\ tpc' = [tpc EXCEPT ![t] = DeferEntry]
    /\ held' = [held EXCEPT ![t] = NoMsg]
    /\ UNCHANGED <<auxVars, proxyVars, resolveVars, version,
                   hpc, done, closeCalls, onceDone, panicking,
                   faulted, aborted, conn, peer, readLog, ctlLog, upgraded, dials>>

\* A panic is raised inside the task's loop (by a read or a write): the
\* goroutine unwinds into its deferred function.
TaskFault(t) ==
    /\ ~aborted /\ tpc[t] \in {"read", "write"}
    /\ panicking' = [panicking EXCEPT ![t] = TRUE]
    /\ faulted' = [faulted EXCEPT ![t] = TRUE]
    /\ held' = [held EXCEPT ![t] = NoMsg]
    /\ tpc' = [tpc EXCEPT ![t] = DeferEntry]
    /\ UNCHANGED <<auxVars, proxyVars, resolveVars, version,
                   hpc, done, closeCalls, onceDone, failed,
                   aborted, conn, peer, readLog, writeLog, ctlLog, upgraded, dials>>

\* Mutant of TaskRecover: a deferred function that does not call recover().
TaskNoRecover(t) ==
    /\ ~aborted /\ tpc[t] = "defer"
    /\ tpc' = [tpc EXCEPT ![t] = IF version = "discovery" THEN "once" ELSE "sel"]
    /\ UNCHANGED <<auxVars, proxyVars, resolveVars, version,
                   hpc, done, closeCalls, onceDone,
                   panicking, faulted, failed, aborted, conn, peer, held,
                   readLog, writeLog, ctlLog, upgraded, dials>>

\* if r := recover(); r != nil { log }: the panic stops here.
TaskRecover(t) ==
    /\ ~aborted /\ tpc[t] = "defer"
    /\ panicking' = [panicking EXCEPT ![t] = FALSE]
    /\ tpc' = [tpc EXCEPT ![t] = IF version = "discovery" THEN "once" ELSE "sel"]
    /\ UNCHANGED <<auxVars, proxyVars, resolveVars, version,
                   hpc, done, closeCalls, onceDone, faulted,
                   failed, aborted, conn, peer, held, readLog, writeLog, ctlLog,
                   upgraded, dials>>

\* close(done): closing a closed channel panics; it is reached from a deferred
\* function, past any recover(), so that panic ends the process.
CloseDone ==
    /\ closeCalls' = closeCalls + 1
    /\ IF done = "closed"
       THEN aborted' = TRUE /\ done' = done
       ELSE aborted' = aborted /\ done' = "closed"

\* Mutant of TaskOnceDo: close(done) in the deferred function with no sync.Once.
TaskCloseUnguarded(t) ==
    /\ ~aborted /\ tpc[t] = "once"
    /\ CloseDone /\ onceDone' = TRUE
    /\ tpc' = [tpc EXCEPT ![t] = "ret"]
    /\ UNCHANGED <<auxVars, proxyVars, resolveVars, version,
                   hpc, panicking, faulted, failed, conn,
                   peer, held, readLog, writeLog, ctlLog, upgraded, dials>>

\* doneOnce.Do(func() { close(done) }): sync.Once runs the function for the
\* first caller only, and every Do returns after that one run has completed.
TaskOnceDo(t) ==
    /\ ~aborted /\ tpc[t] = "once"
    /\ IF onceDone
       THEN UNCHANGED <<done, closeCalls, aborted, onceDone>>
       ELSE CloseDone /\ onceDone' = TRUE
    /\ tpc' = [tpc EXCEPT ![t] = "ret"]
    /\ UNCHANGED <<auxVars, proxyVars, resolveVars, version,
                   hpc, panicking, faulted, failed, conn, peer,
                   held, readLog, writeLog, ctlLog, upgraded, dials>>

\* The deferred function returns and the goroutine ends; a panic that is still
\* unwinding at this point terminates the process.
TaskReturn(t) ==
    /\ ~aborted /\ tpc[t] = "ret"
    /\ tpc' = [tpc EXCEPT ![t] = "exit"]
    /\ aborted' = panicking[t]
    /\ UNCHANGED <<auxVars, proxyVars, resolveVars, version,
                   hpc, done, closeCalls, onceDone, panicking,
                   faulted, failed, conn, peer, held, readLog, writeLog, ctlLog,
                   upgraded, dials>>

\* The remote end of an established connection closes it, or the network
\* between breaks.
PeerGone(s) ==
    /\ ~aborted /\ conn[s] = "open" /\ peer[s] = "up"
    /\ peer' = [peer EXCEPT ![s] = "gone"]
    /\ UNCHANGED <<auxVars, proxyVars, resolveVars, version,
                   hpc, tpc, done, closeCalls, onceDone,
                   panicking, faulted, failed, aborted, conn, held, readLog,
                   writeLog, ctlLog, upgraded, dials>>

\* select { case <-done: return; default: <read and write> } at the head of
\* the loop (first cdpserver version).
TaskLoopSelect(t) ==
    /\ ~aborted /\ tpc[t] = "loop"
    /\ tpc' = [tpc EXCEPT ![t] = IF done = "closed" THEN DeferEntry ELSE "read"]
    /\ UNCHANGED <<auxVars, proxyVars, resolveVars, version,
                   hpc, done, closeCalls, onceDone, panicking,
                   faulted, failed, aborted, conn, peer, held, readLog,
                   writeLog, ctlLog, upgraded, dials>>

\* select { case <-done: default: close(done) } in the deferred function: the
\* select only chooses the branch; close(done) is a statement of its own.
TaskSelect(t) ==
    /\ ~aborted /\ tpc[t] = "sel"
    /\ tpc' = [tpc EXCEPT ![t] = IF done = "closed" THEN "ret" ELSE "close"]
    /\ UNCHANGED <<auxVars, proxyVars, resolveVars, version,
                   hpc, done, closeCalls, onceDone, panicking,
                   faulted, failed, aborted, conn, peer, held, readLog,
                   writeLog, ctlLog, upgraded, dials>>

\* close(done) with nothing that excludes a second caller: the default branch
\* of the select above, and the noVNC tasks' `defer close(done)` and
\* `close(done); return`.
TaskClose(t) ==
    /\ ~aborted /\ tpc[t] = "close"
    /\ CloseDone
    /\ tpc' = [tpc EXCEPT ![t] = IF done = "closed" THEN "exit" ELSE "ret"]
    /\ UNCHANGED <<auxVars, proxyVars, resolveVars, version,
                   hpc, onceDone, panicking, faulted, failed, conn,
                   peer, held, readLog, writeLog, ctlLog, upgraded, dials>>

Handler ==
    \/ HandlerStart \/ HandlerUpgrade \/ HandlerDial \/ HandlerNotify
    \/ HandlerReturnDial \/ HandlerSpawn1 \/ HandlerSpawn2 \/ HandlerWait
    \/ HandlerCloseChrome \/ HandlerCloseClient

Task(t) ==
    \/ \E m \in InMsgs(t) : TaskReadMsg(t, m)
    \/ TaskReadFail(t) \/ TaskWrite(t) \/ TaskFault(t)
    \/ TaskRecover(t) \/ TaskOnceDo(t) \/ TaskReturn(t)

Next ==
    \/ Handler
    \/ \E t \in Tasks : Task(t)
    \/ \E s \in Sides : PeerGone(s)

Spec == Init /\ [][Next]_vars

\* The steps a goroutine takes on its own once it can run: everything but
\* the arrival of a message from a peer and the raising of a panic.  A read
\* on a connection that is closed or whose peer is gone returns.
TaskProgress(t) ==
    \/ TaskReadFail(t) \/ TaskWrite(t) \/ TaskRecover(t)
    \/ TaskOnceDo(t) \/ TaskReturn(t)

\* The Go scheduler runs every goroutine that can run.
LiveSpec ==
    /\ Init /\ [][Next]_vars
    /\ WF_vars(Handler)
    /\ \A t \in Tasks : WF_vars(TaskProgress(t))

(***************************************************************************)
(* One resolution by discoverCDPPort, taken alone.                         *)
(***************************************************************************)

\* One resolution: the request names a machine or none, the control plane
\* answers, discoverCDPPort returns.
InitResolve ==
    /\ version = "discovery" /\ InitRelayOnly
    /\ NoForward(RelayRequest, "discover", 0)
    /\ Alone
    /\ apiReply \in Replies
    /\ reqName \in VMNames \cup {""}
    /\ res = NoRes

Discover ==
    /\ res = NoRes
    /\ res' = discoverCDPPort(apiReply, reqName)
    /\ UNCHANGED <<version, relayVars, proxyVars, auxVars, apiReply, reqName>>

NextResolve == Discover

SpecResolve == InitResolve /\ [][NextResolve]_vars

(***************************************************************************)
(* One inbound request to the dynamic-discovery server: the router, the    *)
(* healthCheck handler and proxyHandler up to the response or the call of  *)
(* websocketProxy.                                                         *)
(***************************************************************************)

\* Answers of the control plane to the listing call of one request.
ProxyReplies ==
    [kind : {"ok"}, vms : ListingsOf(1, 1)]
        \cup [kind : {"unreachable", "unreadable", "malformed", "silent"},
               vms : {<< >>}]

\* A response written to the caller: its status and who produced it.
Response(status, from) == [status |-> status, from |-> from]

\* A request has arrived; the control plane is in any state.
InitProxy ==
    /\ version = "discovery" /\ InitRelayOnly
    /\ apiReply \in ProxyReplies
    /\ reqName = ""
    /\ res = NoRes
    /\ \E r \in Requests : NoForward(r, "idle", 0)
    /\ Alone

\* The router finds the path registered for other methods only.
RouterReject ==
    /\ ppc = "idle" /\ Route(req) = "reject"
    /\ resp' = Append(resp, Response(405, "mux"))
    /\ ppc' = "done"
    /\ UNCHANGED <<req, listCalls, httpCalls, sent, backend, bstatus, ferr,
                   elapsed, resolveVars, relayVars, version, auxVars>>

\* healthCheck: Content-Type, WriteHeader(200) and the fixed payload.
HealthCheck ==
    /\ ppc = "idle" /\ Route(req) = "health"
    /\ resp' = Append(resp, Response(200, "health"))
    /\ ppc' = "done"
    /\ UNCHANGED <<req, listCalls, httpCalls, sent, backend, bstatus, ferr,
                   elapsed, resolveVars, relayVars, version, auxVars>>

\* proxyHandler, first part: vmName from the route variable, replaced by
\* the `vm` query parameter when that is not empty.
ProxyVars ==
    /\ ppc = "idle" /\ Route(req) = "proxy"
    /\ reqName' = TargetName(req)
    /\ ppc' = "discover"
    /\ UNCHANGED <<req, listCalls, httpCalls, sent, resp, backend, bstatus,
                   ferr, elapsed, apiReply, res, relayVars, version, auxVars>>

\* Mutant of ProxyDiscover: the result of the request before is reused.
ProxyDiscoverCached ==
    /\ ppc = "discover" /\ Route(req) = "proxy"
    /\ apiReply.kind # "silent"
    /\ IF prevRes.ok
       THEN res' = prevRes /\ listCalls' = listCalls
       ELSE /\ res' = discoverCDPPort(apiReply, reqName)
            /\ listCalls' = listCalls + 1
    /\ ppc' = "check"
    /\ UNCHANGED <<req, httpCalls, sent, resp, backend, bstatus, ferr,
                   elapsed, apiReply, reqName, relayVars, version, auxVars>>

\* hostPort, vm, err := s.discoverCDPPort(vmName): one listing call.  Its
\* http.Get uses http.DefaultClient, which has no timeout: with a control
\* plane that accepts the connection and never answers ("silent") the call
\* does not return.
ProxyDiscover ==
    /\ ppc = "discover" /\ Route(req) = "proxy"
    /\ apiReply.kind # "silent"
    /\ listCalls' = listCalls + 1
    /\ res' = discoverCDPPort(apiReply, reqName)
    /\ ppc' = "check"
    /\ UNCHANGED <<req, httpCalls, sent, resp, backend, bstatus, ferr,
                   elapsed, apiReply, reqName, relayVars, version, auxVars>>

\* Mutant of ProxyCheck: the error branch lacks its `return`.
ProxyCheckNoReturn ==
    /\ ppc = "check"
    /\ resp' = IF res.ok THEN resp ELSE Append(resp, Response(503, "proxy"))
    /\ ppc' = "branch"
    /\ UNCHANGED <<req, listCalls, httpCalls, sent, backend, bstatus, ferr,
                   elapsed, resolveVars, relayVars, version, auxVars>>

\* if err != nil { http.Error(w, ..., http.StatusServiceUnavailable); return }
ProxyCheck ==
    /\ ppc = "check"
    /\ IF res.ok
       THEN /\ ppc' = "branch"
            /\ resp' = resp
       ELSE /\ ppc' = "done"
            /\ resp' = Append(resp, Response(503, "proxy"))
    /\ UNCHANGED <<req, listCalls, httpCalls, sent, backend, bstatus, ferr,
                   elapsed, resolveVars, relayVars, version, auxVars>>

\* Mutant of ProxyBuild: the upgrade branch lacks its `return`.
ProxyBuildAnyRequest ==
    /\ ppc \in {"branch", "relay"}
    /\ \E ok \in BOOLEAN :
         IF ok
         THEN /\ ppc' = "do"
              /\ UNCHANGED <<resp, ferr>>
         ELSE /\ ppc' = "done"
              /\ ferr' = "build"
              /\ resp' = Append(resp, Response(502, "proxy"))
    /\ UNCHANGED <<req, listCalls, httpCalls, sent, backend, bstatus,
                   elapsed, resolveVars, relayVars, version, auxVars>>

\* Not an upgrade: http.NewRequest(r.Method, targetURL, r.Body) and the copy
\* of the headers; 502 and return if the request cannot be built.
ProxyBuild ==
    /\ ppc = "branch" /\ ~req.upgrade
    /\ \E ok \in BOOLEAN :
         IF ok
         THEN /\ ppc' = "do"
              /\ UNCHANGED <<resp, ferr>>
         ELSE /\ ppc' = "done"
              /\ ferr' = "build"
              /\ resp' = Append(resp, Response(502, "proxy"))
    /\ UNCHANGED <<req, listCalls, httpCalls, sent, backend, bstatus,
                   elapsed, resolveVars, relayVars, version, auxVars>>

\* client.Do(req) is called: the request goes out and the timer of the
\* client starts.
ProxyDo ==
    /\ ppc = "do"
    /\ httpCalls' = httpCalls + 1
    /\ sent' = Append(sent, TargetURL(req, res.hostPort))
    /\ backend' \in BackendModes
    /\ elapsed' = 0
    /\ ppc' = "await"
    /\ UNCHANGED <<req, listCalls, resp, bstatus, ferr, resolveVars,
                   relayVars, version, auxVars>>

\* Mutant of Tick: the client has no Timeout.
TickNoDeadline ==
    /\ ppc \in {"await", "body"}
    /\ elapsed <= Timeout
    /\ elapsed' = elapsed + 1
    /\ UNCHANGED <<req, ppc, listCalls, httpCalls, sent, resp, backend,
                   bstatus, ferr, resolveVars, relayVars, version, auxVars>>

\* A second passes while the forward waits for the backend; the client's
\* timer fires at Timeout, so no second passes the deadline.
Tick ==
    /\ ppc \in {"await", "body"}
    /\ elapsed < Timeout
    /\ elapsed' = elapsed + 1
    /\ UNCHANGED <<req, ppc, listCalls, httpCalls, sent, resp, backend,
                   bstatus, ferr, resolveVars, relayVars, version, auxVars>>

\* client.Do returns the response: status line and headers have arrived.
ProxyDoReturn ==
    /\ ppc = "await" /\ backend \in {"ok", "stall"}
    /\ bstatus' \in BackendStatuses
    /\ ppc' = "body"
    /\ UNCHANGED <<req, listCalls, httpCalls, sent, resp, backend, ferr,
                   elapsed, resolveVars, relayVars, version, auxVars>>

\* Mutant of ProxyDoErr: the error branch returns without http.Error.
ProxyDoErrSilent ==
    /\ ppc = "await"
    /\ backend = "refuse" \/ elapsed = Timeout
    /\ ferr' = IF backend = "refuse" THEN "do" ELSE "timeout"
    /\ resp' = resp
    /\ ppc' = "done"
    /\ UNCHANGED <<req, listCalls, httpCalls, sent, backend, bstatus,
                   elapsed, resolveVars, relayVars, version, auxVars>>

\* client.Do returns an error: the connection failed, or the timer fired
\* before the response head arrived; 502 and return.
ProxyDoErr ==
    /\ ppc = "await"
    /\ backend = "refuse" \/ elapsed = Timeout
    /\ ferr' = IF backend = "refuse" THEN "do" ELSE "timeout"
    /\ resp' = Append(resp, Response(502, "proxy"))
    /\ ppc' = "done"
    /\ UNCHANGED <<req, listCalls, httpCalls, sent, backend, bstatus,
                   elapsed, resolveVars, relayVars, version, auxVars>>

\* io.ReadAll(resp.Body) returns the whole body: the exchange is over and
\* the timer of the client is stopped.
ProxyBodyRead ==
    /\ ppc = "body" /\ backend = "ok"
    /\ bresp' \in BackendResponses
    /\ elapsed' = 0
    /\ ppc' = "respond"
    /\ UNCHANGED <<req, listCalls, httpCalls, sent, resp, backend, bstatus,
                   ferr, resolveVars, relayVars, version, out, rw, served,
                   prevRes, ss, srv, cfg>>

\* Mutant of ProxyBodyErr: the status of the backend was written before the
\* body was read.
ProxyBodyErrAfterHead ==
    /\ ppc = "body"
    /\ backend = "stall" \/ elapsed = Timeout
    /\ ferr' = "body"
    /\ resp' = resp \o <<Response(bstatus, "backend"), Response(502, "proxy")>>
    /\ ppc' = "done"
    /\ UNCHANGED <<req, listCalls, httpCalls, sent, backend, bstatus,
                   elapsed, resolveVars, relayVars, version, auxVars>>

\* io.ReadAll(resp.Body) returns an error: the body broke off, or the timer
\* fired while it was read; 502 and return.
ProxyBodyErr ==
    /\ ppc = "body"
    /\ backend = "stall" \/ elapsed = Timeout
    /\ ferr' = "body"
    /\ resp' = Append(resp, Response(502, "proxy"))
    /\ ppc' = "done"
    /\ UNCHANGED <<req, listCalls, httpCalls, sent, backend, bstatus,
                   elapsed, resolveVars, relayVars, version, auxVars>>

\* The body is rewritten for the host of the request; the backend's header
\* is copied, its status written, and the rewritten body given to w.Write.
ProxyRespond ==
    /\ ppc = "respond"
    /\ \E host \in ProxyHosts :
         out' = Relayed[bresp, ForwardedPort(res.vm), host]
    /\ resp' = Append(resp, Response(bstatus, "backend"))
    /\ ppc' = "done"
    /\ UNCHANGED <<req, listCalls, httpCalls, sent, backend, bstatus, ferr,
                   elapsed, resolveVars, relayVars, version, bresp, rw,
                   served, prevRes, ss, srv, cfg>>

\* The upgrade branch runs websocketProxy up to the dial of the backend.
NextProxy ==
    \/ RouterReject \/ HealthCheck
    \/ ProxyVars \/ ProxyDiscover \/ ProxyCheck
    \/ HandlerStart \/ HandlerUpgrade \/ HandlerDial
    \/ ProxyBuild \/ ProxyDo \/ Tick
    \/ ProxyDoReturn \/ ProxyDoErr \/ ProxyBodyRead \/ ProxyBodyErr
    \/ ProxyRespond

SpecProxy == InitProxy /\ [][NextProxy]_vars

\* The forward is scheduled, and time passes.
LiveSpecProxy == SpecProxy /\ WF_vars(NextProxy)

(***************************************************************************)
(* Requests that follow one another while the listing of the control       *)
(* plane changes: the resolution of each of them.                          *)
(***************************************************************************)

\* Most requests that follow one another.
MaxRequests == 2

\* Plain GET requests on the default path and on the paths of the machines.
SeqRequests ==
    {r \in Requests :
        /\ r.method = "GET" /\ ~r.upgrade /\ r.query = << >>
        /\ r.path[Len(r.path)] = "json"}

InitFresh ==
    /\ version = "discovery" /\ InitRelayOnly
    /\ apiReply \in ProxyReplies
    /\ reqName = ""
    /\ res = NoRes
    /\ \E r \in SeqRequests : NoForward(r, "idle", 0)
    /\ Alone

\* The routing decision of the request is made; the next request arrives
\* at a fresh call of proxyHandler, and the control plane may answer its
\* listing call differently.
NextRequest ==
    /\ ppc \in {"branch", "done"}
    /\ served + 1 < MaxRequests
    /\ served' = served + 1
    /\ prevRes' = res
    /\ req' \in SeqRequests
    /\ apiReply' \in ProxyReplies
    /\ reqName' = ""
    /\ res' = NoRes
    /\ ppc' = "idle"
    /\ listCalls' = 0
    /\ resp' = << >>
    /\ UNCHANGED <<httpCalls, sent, backend, bstatus, ferr, elapsed,
                   relayVars, version, bresp, out, rw, ss, srv, cfg>>

NextFresh == ProxyVars \/ ProxyDiscover \/ ProxyCheck \/ NextRequest

SpecFresh == InitFresh /\ [][NextFresh]_vars

(***************************************************************************)
(* Requests and relay sessions of the dynamic-discovery server that run    *)
(* at the same time, each in its own handler goroutine, and the shutdown   *)
(* of the server in main.  A session is followed from step to step of its  *)
(* handler; of a forwarding task only its end is looked at.                *)
(***************************************************************************)

\* Most requests and sessions that run at the same time.
MaxSessions == 2

\* seconds of context.WithTimeout(context.Background(), 30*time.Second)
Grace == 30

\* A request as its handler starts: nothing resolved, no connection, no
\* completion channel, no task.
NewSession(kind) ==
    [kind |-> kind, pc |-> "discover", status |-> 0, err |-> "none",
     client |-> "none", chrome |-> "none", done |-> "nil",
     onceDone |-> FALSE, tasks |-> [t \in Tasks |-> "none"]]

InitMulti ==
    /\ version = "discovery" /\ InitRelayOnly /\ IdleResolve
    /\ NoForward(RelayRequest, "idle", 0)
    /\ rw = NoRewrite /\ served = 0 /\ prevRes = NoRes
    /\ srv = Serving
    /\ cfg = NoConfigCall
    /\ ss \in [1..MaxSessions -> {NewSession(k) : k \in {"plain", "upgrade"}}]

\* The variables no step of a concurrent session or of the shutdown changes.
singleVars == <<version, relayVars, resolveVars, proxyVars, bresp, out, rw,
                served, prevRes, cfg>>

\* The process runs: main neither returned nor called log.Fatalf.
Alive == srv.phase \in {"serving", "draining"}

\* The handler of session i answers st and returns; err names the failure.
Answered(i, st, err) ==
    [ss EXCEPT ![i].pc = "over", ![i].status = st, ![i].err = err]

\* discoverCDPPort in the handler of session i; 503 and return on an error.
SDiscover(i) ==
    /\ Alive /\ ss[i].pc = "discover"
    /\ \E ok \in BOOLEAN :
         ss' = IF ok
               THEN [ss EXCEPT ![i].pc = IF ss[i].kind = "plain"
                                         THEN "forward" ELSE "upgrade"]
               ELSE Answered(i, 503, "discovery")
    /\ UNCHANGED <<singleVars, srv>>

\* The plain forward of session i: the backend's status, or 502.
SForward(i) ==
    /\ Alive /\ ss[i].pc = "forward"
    /\ \E ok \in BOOLEAN :
         ss' = IF ok THEN Answered(i, 200, "none")
               ELSE Answered(i, 502, "backend")
    /\ UNCHANGED <<singleVars, srv>>

\* upgrader.Upgrade in session i: the connection is taken over from the
\* server (hijacked), or the handler returns.
SUpgrade(i) ==
    /\ Alive /\ ss[i].pc = "upgrade"
    /\ \E ok \in BOOLEAN :
         ss' = IF ok
               THEN [ss EXCEPT ![i].pc = "dial", ![i].client = "open"]
               ELSE [ss EXCEPT ![i].pc = "over", ![i].err = "upgrade"]
    /\ UNCHANGED <<singleVars, srv>>

\* Dial in session i: on success `done` and doneOnce are made and the two
\* tasks started; on failure the close frame is written and the deferred
\* clientConn.Close() runs.
SDial(i) ==
    /\ Alive /\ ss[i].pc = "dial"
    /\ \E ok \in BOOLEAN :
         ss' = IF ok
               THEN [ss EXCEPT ![i].pc = "relay", ![i].chrome = "open",
                               ![i].done = "open",
                               ![i].tasks = [t \in Tasks |-> "run"]]
               ELSE [ss EXCEPT ![i].pc = "over", ![i].err = "dial",
                               ![i].client = "closed"]
    /\ UNCHANGED <<singleVars, srv>>

\* Task t of session i leaves its loop: a read or a write returned an
\* error (the goroutine returns) or panicked; the deferred function runs
\* next.
STaskFail(i, t) ==
    /\ Alive /\ ss[i].tasks[t] = "run"
    /\ \E how \in {"failed", "panicked"} :
         ss' = [ss EXCEPT ![i].tasks[t] = how, ![i].err = "relay"]
    /\ UNCHANGED <<singleVars, srv>>

\* Mutant of STaskDefer: `done` and doneOnce are package variables, shared
\* by the sessions.
STaskDeferSharedDone(i, t) ==
    /\ Alive /\ ss[i].tasks[t] \in {"failed", "panicked"}
    /\ ss' = [j \in DOMAIN ss |->
                IF j = i
                THEN [ss[j] EXCEPT !.tasks[t] = "ended",
                                   !.done = "closed", !.onceDone = TRUE]
                ELSE IF ss[j].done = "open"
                     THEN [ss[j] EXCEPT !.done = "closed", !.onceDone = TRUE]
                     ELSE ss[j]]
    /\ UNCHANGED <<singleVars, srv>>

\* The deferred function of task t of session i: recover() stops a panic,
\* doneOnce.Do closes `done` if this is the first call, and the goroutine
\* ends.
STaskDefer(i, t) ==
    /\ Alive /\ ss[i].tasks[t] \in {"failed", "panicked"}
    /\ ss' = [ss EXCEPT ![i].tasks[t] = "ended",
                        ![i].done = "closed", ![i].onceDone = TRUE]
    /\ UNCHANGED <<singleVars, srv>>

\* <-done in the handler of session i, then the deferred Close of both
\* connections.
SHandlerReturn(i) ==
    /\ Alive /\ ss[i].pc = "relay" /\ ss[i].done = "closed"
    /\ ss' = [ss EXCEPT ![i].pc = "over", ![i].client = "closed",
                        ![i].chrome = "closed"]
    /\ UNCHANGED <<singleVars, srv>>

NextMulti ==
    \/ \E i \in DOMAIN ss : SDiscover(i)
    \/ \E i \in DOMAIN ss : SForward(i)
    \/ \E i \in DOMAIN ss : SUpgrade(i)
    \/ \E i \in DOMAIN ss : SDial(i)
    \/ \E i \in DOMAIN ss, t \in Tasks : STaskFail(i, t)
    \/ \E i \in DOMAIN ss, t \in Tasks : STaskDefer(i, t)
    \/ \E i \in DOMAIN ss : SHandlerReturn(i)

SpecMulti == InitMulti /\ [][NextMulti]_vars

\* The connection of session i is with the server, not hijacked, and its
\* handler has not returned: Shutdown waits for it.
InFlight(i) == ss[i].pc \in {"discover", "forward", "upgrade"}

\* What is left of the sessions when the process exits: every handler and
\* task that still ran is cut off and the kernel closes its sockets.
Exited ==
    [i \in DOMAIN ss |->
       IF ss[i].pc = "over" THEN ss[i]
       ELSE [ss[i] EXCEPT !.pc = "killed",
               !.client = IF @ = "open" THEN "closed" ELSE @,
               !.chrome = IF @ = "open" THEN "closed" ELSE @]]

\* SIGINT or SIGTERM arrives: main makes the 30 s context and calls
\* srv.Shutdown, which closes the listener first.
Signal ==
    /\ srv.phase = "serving"
    /\ srv' = [srv EXCEPT !.phase = "draining", !.listener = "closed"]
    /\ UNCHANGED <<singleVars, ss>>

\* A second passes while Shutdown polls the connections.
GraceTick ==
    /\ srv.phase = "draining" /\ srv.clock < Grace
    /\ srv' = [srv EXCEPT !.clock = @ + 1]
    /\ UNCHANGED <<singleVars, ss>>

\* Shutdown finds no connection of the server in flight (hijacked ones are
\* not the server's any more) and returns nil; main logs and returns, and
\* the process exits with the goroutines it still has.
ShutdownReturn ==
    /\ srv.phase = "draining"
    /\ \A i \in DOMAIN ss : ~InFlight(i)
    /\ srv' = [srv EXCEPT !.phase = "exited"]
    /\ ss' = Exited
    /\ UNCHANGED singleVars

\* The context expires with a request still in flight: Shutdown returns
\* the context's error and log.Fatalf ends the process.
ShutdownExpire ==
    /\ srv.phase = "draining" /\ srv.clock = Grace
    /\ \E i \in DOMAIN ss : InFlight(i)
    /\ srv' = [srv EXCEPT !.phase = "fatal"]
    /\ ss' = Exited
    /\ UNCHANGED singleVars

NextShutdown ==
    \/ NextMulti
    \/ Signal
    \/ GraceTick
    \/ ShutdownReturn
    \/ ShutdownExpire

SpecShutdown == InitMulti /\ [][NextShutdown]_vars

(***************************************************************************)
(* The configuration getters of pkg/config: a YAML file is read and the    *)
(* sub-tree under one key is unmarshalled into a struct with a Port field. *)
(***************************************************************************)

clientConfigKey == "hostservices.client"
codeServerConfigKey == "guestservices.codeserver"
novncServerConfigKey == "guestservices.novncserver"
cdpServerConfigKey == "guestservices.cdpserver"

ConfigKeys ==
    {clientConfigKey, codeServerConfigKey, novncServerConfigKey,
     cdpServerConfigKey}

\* A key of the file: absent, or a section whose `port` setting is absent
\* (<< >>) or one of the ports of config.yaml.
NoSection == [present |-> FALSE, port |-> << >>]
Sections ==
    {NoSection} \cup
    [present : {TRUE}, port : {<< >>, <<"4030">>, <<"6080">>, <<"2999">>}]

ConfigFiles == [ConfigKeys -> Sections]

\* The error return of a getter.
ConfigErr(err) == [ok |-> FALSE, Port |-> << >>, err |-> err]

\* viper.ReadInConfig, viper.Sub(key) and Unmarshal into a struct with the
\* one field Port `mapstructure:"port"`: a key that is absent gives the
\* error notFound, a section without `port` the zero value.
GetPortConfig(file, readable, key, notFound) ==
    IF ~readable THEN ConfigErr("failed to read config")
    ELSE IF ~file[key].present THEN ConfigErr(notFound)
    ELSE [ok |-> TRUE, Port |-> file[key].port, err |-> ""]

\* GetCodeServerConfig asks viper for clientConfigKey.
GetCodeServerConfig(file, readable) ==
    GetPortConfig(file, readable, clientConfigKey,
                  "client configuration not found")

GetNoVNCServerConfig(file, readable) ==
    GetPortConfig(file, readable, novncServerConfigKey,
                  "novnc server configuration not found")

GetCDPServerConfig(file, readable) ==
    GetPortConfig(file, readable, cdpServerConfigKey,
                  "cdp server configuration not found")

Getters == {"GetCodeServerConfig", "GetNoVNCServerConfig", "GetCDPServerConfig"}

InitConfig ==
    /\ version = "discovery" /\ InitRelayOnly /\ IdleResolve
    /\ NoForward(RelayRequest, "idle", 0)
    /\ rw = NoRewrite /\ served = 0 /\ prevRes = NoRes
    /\ ss = << >> /\ srv = Serving
    /\ \E f \in ConfigFiles, r \in BOOLEAN :
         cfg = [NoConfigCall EXCEPT !.file = f, !.readable = r]

\* One call of a getter on the file.
GetConfig ==
    /\ cfg.getter = "none"
    /\ \E g \in Getters :
         cfg' = [cfg EXCEPT
                   !.getter = g,
                   !.result =
                      CASE g = "GetCodeServerConfig" ->
                              GetCodeServerConfig(cfg.file, cfg.readable)
                        [] g = "GetNoVNCServerConfig" ->
                              GetNoVNCServerConfig(cfg.file, cfg.readable)
                        [] OTHER ->
                              GetCDPServerConfig(cfg.file, cfg.readable)]
    /\ UNCHANGED <<version, relayVars, resolveVars, proxyVars, bresp, out,
                   rw, served, prevRes, ss, srv>>

NextConfig == GetConfig

SpecConfig == InitConfig /\ [][NextConfig]_vars

(***************************************************************************)
(* The rewrite taken alone: a body and a public host are given, the        *)
(* rewrite is applied, and applied again to its own output.                *)
(***************************************************************************)
InitRewrite ==
    /\ version = "discovery" /\ InitRelayOnly /\ IdleResolve
    /\ NoForward(RelayRequest, "respond", 0)
    /\ rw \in [body : Bodies, host : PublicHosts, outs : {<< >>}]
    /\ served = 0 /\ prevRes = NoRes /\ ss = << >> /\ srv = Serving
    /\ cfg = NoConfigCall

RewriteStep ==
    /\ Len(rw.outs) < 2
    /\ LET input == IF rw.outs = << >> THEN rw.body
                    ELSE rw.outs[Len(rw.outs)]
       IN  rw' = [rw EXCEPT !.outs =
                    Append(@, Rewrite(input, ChromePattern("9223"), rw.host))]
    /\ UNCHANGED <<version, relayVars, resolveVars, proxyVars, bresp, out,
                   served, prevRes, ss, srv, cfg>>

NextRewrite == RewriteStep

SpecRewrite == InitRewrite /\ [][NextRewrite]_vars

(***************************************************************************)
(* The two websocketProxy versions of cmd/cdpserver/main.go.               *)
(***************************************************************************)
InitSelect == version \in {"select1", "select2"} /\ InitRelay

\* The steps of a task whose reads and writes return normally or with an
\* error (recover() then finds no panic).
TaskSel(t) ==
    \/ \E m \in InMsgs(t) : TaskReadMsg(t, m)
    \/ TaskReadFail(t) \/ TaskWrite(t) \/ TaskLoopSelect(t)
    \/ TaskRecover(t) \/ TaskSelect(t) \/ TaskClose(t) \/ TaskReturn(t)

NextSelect ==
    \/ Handler
    \/ \E t \in Tasks : TaskSel(t)
    \/ \E s \in Sides : PeerGone(s)

SpecSelect == InitSelect /\ [][NextSelect]_vars

(***************************************************************************)
(* websocketHandler of cmd/novncserver/main.go (the version with `done`).  *)
(***************************************************************************)
InitNoVNC == version = "novnc" /\ InitRelay

TaskVnc(t) ==
    \/ \E m \in InMsgs(t) : TaskReadMsg(t, m)
    \/ TaskReadFail(t) \/ TaskWrite(t) \/ TaskClose(t) \/ TaskReturn(t)

NextNoVNC ==
    \/ Handler
    \/ \E t \in Tasks : TaskVnc(t)
    \/ \E s \in Sides : PeerGone(s)

SpecNoVNC == InitNoVNC /\ [][NextNoVNC]_vars

(***************************************************************************)
(* The noVNC relay without a completion channel (src/unnamed/part_002):    *)
(* the handler starts the WebSocket->VNC goroutine and runs the            *)
(* VNC->WebSocket loop itself.  tpc["c2b"] is the position of the          *)
(* goroutine, tpc["b2c"] the position of the handler inside its loop.      *)
(***************************************************************************)

InitVnc == version = "novnc2" /\ InitRelay

\* go func() { defer vncConn.Close(); for { ... } }(), then the handler
\* enters its own loop.
VncSpawn ==
    /\ ~aborted /\ hpc = "spawn1"
    /\ tpc' = [t \in Tasks |-> "read"]
    /\ hpc' = "loop"
    /\ UNCHANGED <<auxVars, proxyVars, resolveVars, version,
                   done, closeCalls, onceDone, panicking, faulted,
                   failed, aborted, conn, peer, held, readLog, writeLog,
                   ctlLog, upgraded, dials>>

\* After a read: the goroutine writes binary messages to the VNC connection
\* and drops the others; the handler wraps what it read in a binary message
\* for the WebSocket.  A failed write breaks the loop.
VncWrite(t) ==
    IF t = "c2b" /\ held[t].type # "Binary"
    THEN /\ ~aborted /\ tpc[t] = "write"
         /\ held' = [held EXCEPT ![t] = NoMsg]
         /\ tpc' = [tpc EXCEPT ![t] = "read"]
         /\ UNCHANGED <<auxVars, proxyVars, resolveVars, version,
                        hpc, done, closeCalls, onceDone, panicking, faulted,
                        failed, aborted, conn, peer, readLog, writeLog,
                        ctlLog, upgraded, dials>>
    ELSE TaskWrite(t)

\* Mutant of VncTaskBreak: the goroutine has no `defer vncConn.Close()`.
VncTaskBreakNoClose ==
    /\ ~aborted /\ tpc["c2b"] = "break"
    /\ tpc' = [tpc EXCEPT !["c2b"] = "exit"]
    /\ UNCHANGED <<auxVars, proxyVars, resolveVars, version,
                   hpc, done, closeCalls, onceDone, panicking, faulted,
                   failed, aborted, conn, peer, held, readLog, writeLog,
                   ctlLog, upgraded, dials>>

\* The goroutine left its loop: the deferred vncConn.Close() runs and the
\* goroutine ends.
VncTaskBreak ==
    /\ ~aborted /\ tpc["c2b"] = "break"
    /\ conn' = [conn EXCEPT !["chrome"] = "closed"]
    /\ tpc' = [tpc EXCEPT !["c2b"] = "exit"]
    /\ UNCHANGED <<auxVars, proxyVars, resolveVars, version,
                   hpc, done, closeCalls, onceDone, panicking, faulted,
                   failed, aborted, peer, held, readLog, writeLog,
                   ctlLog, upgraded, dials>>

\* The handler left its loop: it logs and returns; its deferred
\* vncConn.Close() and conn.Close() follow.
VncLoopBreak ==
    /\ ~aborted /\ hpc = "loop" /\ tpc["b2c"] = "break"
    /\ tpc' = [tpc EXCEPT !["b2c"] = "exit"]
    /\ hpc' = "retChrome"
    /\ UNCHANGED <<auxVars, proxyVars, resolveVars, version,
                   done, closeCalls, onceDone, panicking, faulted,
                   failed, aborted, conn, peer, held, readLog, writeLog,
                   ctlLog, upgraded, dials>>

\* Steps of the goroutine, and of the handler inside its loop.
VncLoop(t) ==
    \/ \E m \in InMsgs(t) : TaskReadMsg(t, m)
    \/ TaskReadFail(t)
    \/ VncWrite(t)

HandlerVnc ==
    \/ HandlerStart \/ HandlerUpgrade \/ HandlerDial \/ HandlerNotify
    \/ HandlerReturnDial \/ VncSpawn \/ VncLoopBreak
    \/ HandlerCloseChrome \/ HandlerCloseClient

NextVnc ==
    \/ HandlerVnc
    \/ \E t \in Tasks : VncLoop(t)
    \/ VncTaskBreak
    \/ \E s \in Sides : PeerGone(s)

SpecVnc == InitVnc /\ [][NextVnc]_vars

\* What a loop does on its own once it can run: a read on a connection that
\* is closed or whose peer is gone returns, and a write returns.
VncProgress(t) == TaskReadFail(t) \/ VncWrite(t)

\* The Go scheduler runs the handler and the goroutine when they can run.
LiveSpecVnc ==
    /\ SpecVnc
    /\ WF_vars(HandlerVnc)
    /\ WF_vars(VncTaskBreak)
    /\ \A t \in Tasks : WF_vars(VncProgress(t))

(***************************************************************************)
(* Properties.                                                             *)
(***************************************************************************)

IsPrefix(a, b) == Len(a) <= Len(b) /\ SubSeq(b, 1, Len(a)) = a

\* C1: in the dynamic-discovery websocketProxy `done` is closed at most once
\* and never closed twice (no close-of-closed-channel panic), under every
\* interleaving of the handler and the two tasks; it is closed exactly once
\* as soon as one task has run its deferred function.
C1_DoneClosedOnce ==
    /\ closeCalls <= 1
    /\ ~aborted
    /\ (done = "closed") <=> (closeCalls = 1)
    /\ \A t \in Tasks : tpc[t] \in {"ret", "exit"} => done = "closed"

\* Both tasks failed and ended while the handler had not yet closed anything.
C1_Witness ==
    /\ \A t \in Tasks : failed[t] /\ tpc[t] = "exit"
    /\ conn = [s \in Sides |-> "open"]
    /\ closeCalls = 1

\* C2: with the select/default guard of cmd/cdpserver the completion channel
\* is closed at most once under every interleaving of the two tasks.
C2_SelectGuardClosesOnce == closeCalls <= 1

\* C3: in the noVNC websocketHandler `done` is closed at most once over the
\* whole life of the session and the process is not aborted.
C3_NoVNCClosesOnce == closeCalls <= 1 /\ ~aborted

\* C4: a panic raised inside a forwarding task is stopped in the task's
\* deferred function, the completion signal is still triggered by that task,
\* and the process is never aborted.
C4_PanicContained ==
    /\ ~aborted
    /\ \A t \in Tasks :
         /\ panicking[t] => tpc[t] = "defer"
         /\ (faulted[t] /\ tpc[t] \in {"ret", "exit"}) => done = "closed"

\* A task panicked and ended, and the process lives on.
C4_Witness == \E t \in Tasks : faulted[t] /\ tpc[t] = "exit" /\ hpc = "closed"

\* The session is over: signal fired, handler returned, both connections
\* closed, both goroutines ended.
SessionOver ==
    /\ done = "closed"
    /\ hpc = "closed"
    /\ \A s \in Sides : conn[s] = "closed"
    /\ \A t \in Tasks : tpc[t] = "exit"

\* C5: once a read or write has failed on a task, that task performs no
\* further read or write, and the whole session eventually terminates.
C5_FailureEndsSession ==
    /\ [][\A t \in Tasks : failed[t] => tpc'[t] \notin {"read", "write"}]_vars
    /\ \A t \in Tasks : failed[t] ~> SessionOver

\* A failure on one leg ended the session while the other peer was still up.
C5_Witness ==
    /\ SessionOver
    /\ failed["c2b"] /\ peer["client"] = "gone" /\ peer["chrome"] = "up"

\* C6: per direction, the messages written are a prefix of the messages read
\* (same type, same payload, same order), at most one message behind.
C6_FifoPerDirection ==
    \A t \in Tasks :
        /\ IsPrefix(writeLog[t], readLog[t])
        /\ Len(readLog[t]) <= Len(writeLog[t]) + 1

\* Two messages of different types went through in one direction, and a
\* message in the other direction was read between them.
C6_Witness ==
    /\ Len(writeLog["c2b"]) = 2
    /\ writeLog["c2b"][1].type # writeLog["c2b"][2].type
    /\ Len(readLog["c2b"]) = 2
    /\ Len(writeLog["b2c"]) = 1

\* C7: after a failed upgrade no backend is dialed, no task is started and
\* no connection exists; the handler has returned.
C7_UpgradeFailureContactsNoBackend ==
    upgraded = "failed" =>
        /\ dials = 0
        /\ hpc = "closed"
        /\ \A t \in Tasks : tpc[t] = "none"
        /\ \A s \in Sides : conn[s] = "none"
        /\ done = "nil"

C7_Witness == upgraded = "failed" /\ hpc = "closed"

\* The dial to the backend has failed (after a successful upgrade).
DialFailed == upgraded = "ok" /\ dials > 0 /\ conn["chrome"] = "none"

\* C8: after a failed dial exactly one close frame, code 1002, is written to
\* the inbound connection, no task is started, and the handler returns at
\* once with the inbound connection closed.
C8_DialFailureNotifiesOnce ==
    DialFailed =>
        /\ hpc \in {"notify", "retDial", "closed"}
        /\ ctlLog = IF hpc = "notify" THEN << >> ELSE <<1002>>
        /\ \A t \in Tasks : tpc[t] = "none"
        /\ done = "nil"
        /\ dials = 1
        /\ hpc = "closed" => conn["client"] = "closed"

C8_Witness == DialFailed /\ hpc = "closed" /\ ctlLog = <<1002>>

\* The phase of the session, from the handler's position.
Phase ==
    CASE hpc = "idle" -> 0
      [] hpc = "upgrade" -> 1
      [] hpc \in {"dial", "notify", "retDial"} -> 2
      [] hpc \in {"spawn1", "spawn2", "wait", "retChrome", "retClient"} -> 3
      [] hpc = "closed" -> 4

\* C9: the phases are passed in the order Idle, Upgrading, Dialing, Relaying,
\* Closed; only Upgrading and Dialing may jump to Closed; Closed is never
\* left; a dial happens only after a successful upgrade and a forwarding
\* task exists only after a successful dial.
C9_PhaseOrder ==
    [][/\ Phase' >= Phase
       /\ Phase' # Phase =>
             \/ Phase' = Phase + 1
             \/ Phase' = 4 /\ Phase \in {1, 2}
       /\ dials' > 0 => upgraded' = "ok"
       /\ (\E t \in Tasks : tpc'[t] # "none") =>
             (dials' = 1 /\ conn'["chrome"] # "none" /\ Phase' >= 3)]_vars

\* A session that went through every phase.
C9_Witness ==
    /\ hpc = "closed"
    /\ \A t \in Tasks : Len(writeLog[t]) = 1 /\ tpc[t] = "exit"

\* C10: a successful resolution returns a machine of the listing whose status
\* is RUNNING.
C10_OnlyRunningSelected ==
    res.ok =>
        /\ res.vm.Status = "RUNNING"
        /\ \E i \in 1..Len(apiReply.vms) : apiReply.vms[i] = res.vm

\* A resolution succeeded although the listing starts with a machine that is
\* not RUNNING and has the requested name and a matching port forward.
C10_Witness ==
    /\ res.ok
    /\ reqName # ""
    /\ Len(apiReply.vms) = 2
    /\ apiReply.vms[1].Status = "STOPPED"
    /\ apiReply.vms[1].VMName = reqName
    /\ FirstCDPForward(apiReply.vms[1].PortForwards) # 0

\* A port mapping with tag "cdp" and the expected internal port.
CdpMapping(pf) == pf.Description = "cdp" /\ pf.GuestPort = "9223"

\* Machine i of the listing is RUNNING and has such a mapping.
Exposes(vms, i) ==
    /\ vms[i].Status = "RUNNING"
    /\ \E j \in 1..Len(vms[i].PortForwards) : CdpMapping(vms[i].PortForwards[j])

\* A resolution against a decodable listing has returned.
Resolved == res # NoRes /\ apiReply.kind = "ok"

\* C11: with a target name, a successful resolution returns a machine of
\* exactly that name and a host port of one of that machine's own mappings.
C11_NamedReturnsOnlyThatName ==
    (Resolved /\ reqName # "" /\ res.ok) =>
        /\ res.vm.VMName = reqName
        /\ \E i \in 1..Len(apiReply.vms) :
             /\ apiReply.vms[i].VMName = reqName
             /\ \E j \in 1..Len(apiReply.vms[i].PortForwards) :
                  /\ CdpMapping(apiReply.vms[i].PortForwards[j])
                  /\ apiReply.vms[i].PortForwards[j].HostPort = res.hostPort

\* "b" was resolved although a RUNNING "a" with a matching mapping precedes it.
C11_Witness ==
    /\ Resolved /\ reqName = "b" /\ res.ok
    /\ Len(apiReply.vms) = 2
    /\ apiReply.vms[1].VMName = "a" /\ Exposes(apiReply.vms, 1)
    /\ res.hostPort = HostPortAt(2, 1)

\* C12: without a target name, resolution succeeds when some RUNNING machine
\* has a matching mapping and then returns the first matching mapping of the
\* first such machine in listing order, with that machine's descriptor; the
\* result names one mapping only.
C12_UnnamedReturnsFirstMatch ==
    (Resolved /\ reqName = "") =>
        LET vms == apiReply.vms
            first == {i \in 1..Len(vms) :
                        Exposes(vms, i) /\ \A k \in 1..(i - 1) : ~Exposes(vms, k)}
        IN  /\ res.ok <=> first # {}
            /\ \A i \in first :
                 /\ res.vm = vms[i]
                 /\ \E j \in 1..Len(vms[i].PortForwards) :
                      /\ CdpMapping(vms[i].PortForwards[j])
                      /\ \A l \in 1..(j - 1) : ~CdpMapping(vms[i].PortForwards[l])
                      /\ res.hostPort = vms[i].PortForwards[j].HostPort
            /\ res.ok =>
                 Cardinality({ij \in (1..Len(vms)) \X (1..MaxPF + 1) :
                                /\ ij[2] <= Len(vms[ij[1]].PortForwards)
                                /\ vms[ij[1]].PortForwards[ij[2]].HostPort
                                      = res.hostPort}) = 1

\* The second machine was chosen, and of its two matching mappings the first.
C12_Witness ==
    /\ Resolved /\ reqName = "" /\ res.ok
    /\ Len(apiReply.vms) = 2
    /\ apiReply.vms[1].Status = "STOPPED"
    /\ Len(apiReply.vms[2].PortForwards) = 2
    /\ \A j \in 1..2 : CdpMapping(apiReply.vms[2].PortForwards[j])
    /\ res.hostPort = HostPortAt(2, 1)

\* C13: resolution fails with the named-not-found error exactly when a name
\* was given and no RUNNING machine of that name has a matching mapping, and
\* with the none-available error exactly when no name was given and no
\* RUNNING machine has one; with no RUNNING machine it always fails.
C13_ErrorKinds ==
    Resolved =>
        LET vms == apiReply.vms
            named == \E i \in 1..Len(vms) :
                        Exposes(vms, i) /\ vms[i].VMName = reqName
            any == \E i \in 1..Len(vms) : Exposes(vms, i)
        IN  /\ (res.err = "not found or not running with CDP")
                    <=> (reqName # "" /\ ~named)
            /\ (res.err = "no running VM found") <=> (reqName = "" /\ ~any)
            /\ res.ok <=> (res.err = "")
            /\ (\A i \in 1..Len(vms) : vms[i].Status # "RUNNING") => ~res.ok

\* A named resolution failed on a listing whose machines, none RUNNING, have
\* the name and a matching mapping.
C13_Witness ==
    /\ Resolved /\ reqName = "a"
    /\ res.err = "not found or not running with CDP"
    /\ Len(apiReply.vms) = 2
    /\ \A i \in 1..2 :
         /\ apiReply.vms[i].VMName = "a" /\ apiReply.vms[i].Status = "STOPPED"
         /\ Len(apiReply.vms[i].PortForwards) > 0
         /\ CdpMapping(apiReply.vms[i].PortForwards[1])


\* discoverCDPPort has returned an error to proxyHandler.
DiscoveryFailed == res.err # "none" /\ ~res.ok

\* C14: after a failed discovery the request is answered 503 after exactly
\* one listing call, and nothing is sent to a backend: no HTTP request, no
\* upgrade, no dial.
C14_DiscoveryFailureAnswers503 ==
    DiscoveryFailed =>
        /\ listCalls = 1
        /\ httpCalls = 0 /\ sent = << >>
        /\ hpc = "idle" /\ upgraded = "pending" /\ dials = 0
        /\ ppc \in {"check", "done"}
        /\ ppc = "done" => resp = <<Response(503, "proxy")>>

\* An upgrade request on the path of machine b was answered 503 while the
\* listing holds a running machine a that exposes the debugging port.
C14_Witness ==
    /\ ppc = "done" /\ DiscoveryFailed
    /\ req.upgrade /\ reqName = "b"
    /\ res.err = "not found or not running with CDP"
    /\ Len(apiReply.vms) = 1 /\ Exposes(apiReply.vms, 1)
    /\ resp = <<Response(503, "proxy")>>

\* C15: GET /health is answered 200 by healthCheck, with no listing call and
\* no contact with a backend, whatever the control plane would answer.
C15_HealthAlwaysLive ==
    (req.path = <<"health">> /\ req.method = "GET") =>
        /\ listCalls = 0 /\ res = NoRes
        /\ httpCalls = 0 /\ sent = << >>
        /\ hpc = "idle" /\ upgraded = "pending" /\ dials = 0
        /\ ppc \in {"idle", "done"}
        /\ ppc = "done" => resp = <<Response(200, "health")>>

\* GET /health was answered 200 while the control plane is unreachable.
C15_Witness ==
    /\ req.path = <<"health">> /\ req.method = "GET"
    /\ apiReply.kind = "unreachable"
    /\ ppc = "done" /\ resp = <<Response(200, "health")>>

\* proxyHandler has run discoverCDPPort for the request.
ProxyResolved == res.err # "none"

\* The query string of the request has no `vm` parameter.
NoVmParam == \A i \in 1..Len(req.query) : req.query[i][1] # "vm"

\* C16: without a `vm` parameter a request on /vm/{vmName}/... is resolved
\* with the name segment of its path and a request on a default path with no
\* name; a request on a named path is never resolved without a name, and the
\* machine that serves it has the name it was resolved with.
C16_PathSelectsTarget ==
    ProxyResolved =>
        /\ (NoVmParam /\ req.path[1] = "vm") => reqName = req.path[2]
        /\ (NoVmParam /\ req.path[1] # "vm") => reqName = ""
        /\ req.path[1] = "vm" =>
              /\ reqName # ""
              /\ res.ok => res.vm.VMName = reqName

\* A plain request on the path of machine b, with parameters other than
\* `vm`, was forwarded to machine b.
C16_Witness ==
    /\ ProxyResolved /\ NoVmParam /\ req.query # << >>
    /\ req.path = <<"vm", "b", "json">>
    /\ reqName = "b" /\ res.ok
    /\ ppc = "done" /\ resp = <<Response(200, "backend")>>

\* C17: when the first `vm` parameter of the query string is not empty its
\* value is the name the request is resolved with, whatever the path says;
\* and no request sent to a backend, plain or upgrade, has a `vm` parameter.
C17_VmParamOverridesAndIsStripped ==
    /\ ProxyResolved =>
          \A i \in 1..Len(req.query) :
              (/\ req.query[i][1] = "vm" /\ req.query[i][2] # ""
               /\ \A j \in 1..(i - 1) : req.query[j][1] # "vm")
                  => reqName = req.query[i][2]
    /\ \A k \in 1..Len(sent) :
          \A i \in 1..Len(sent[k].query) : sent[k].query[i][1] # "vm"

\* An upgrade request on the path of machine a with vm=b and one more
\* parameter was resolved to machine b and dialed with the other parameter
\* only.
C17_Witness ==
    /\ req.upgrade /\ req.path[1] = "vm" /\ req.path[2] = "a"
    /\ req.query = <<<<"vm", "b">>, <<"a", "1">>>>
    /\ reqName = "b" /\ res.ok /\ res.vm.VMName = "b"
    /\ Len(sent) = 1 /\ sent[1].scheme = "ws"
    /\ sent[1].query = <<<<"a", "1">>>>

\* The parameters of the inbound query string other than `vm`, in order.
InboundWithoutVm == SelectSeq(req.query, LAMBDA p : p[1] # "vm")

\* C18: every request sent to a backend has the inbound method and path and
\* the inbound parameters other than `vm`, in their inbound order.
C18_QueryForwardedVerbatim ==
    \A k \in 1..Len(sent) :
        /\ sent[k].method = req.method
        /\ sent[k].path = req.path
        /\ sent[k].query = InboundWithoutVm

\* C19: a forward never waits for the backend beyond the timeout of the
\* client, and when the backend accepts the connection and never responds
\* the caller gets a 502, at the timeout.
C19_SilentBackendTimesOut ==
    /\ [](ppc \in {"await", "body"} => elapsed <= Timeout)
    /\ []((backend = "silent" /\ ppc = "done")
            => (resp = <<Response(502, "proxy")>> /\ elapsed = Timeout))
    /\ (backend = "silent") ~> (ppc = "done")

\* The forward to a backend that never responds ended with the 502 of the
\* timeout.
C19_Witness ==
    /\ backend = "silent" /\ ppc = "done" /\ ferr = "timeout"
    /\ elapsed = Timeout /\ httpCalls = 1
    /\ resp = <<Response(502, "proxy")>>

\* C20: a plain forward that fails to build its request, whose client.Do
\* fails or times out, or whose body cannot be read, answers 502 and nothing
\* else; client.Do is called at most once per request, once when a later
\* step failed and not at all when the request could not be built.
C20_ForwardFailureIs502 ==
    /\ httpCalls <= 1
    /\ ferr # "none" =>
          /\ ppc = "done"
          /\ resp = <<Response(502, "proxy")>>
          /\ httpCalls = IF ferr = "build" THEN 0 ELSE 1
          /\ Len(sent) = httpCalls

\* The backend sent status 200 and its headers, then the body broke off: the
\* caller got the 502 only.
C20_Witness ==
    /\ ferr = "body" /\ backend = "stall" /\ bstatus = 200
    /\ elapsed < Timeout
    /\ ppc = "done" /\ httpCalls = 1
    /\ resp = <<Response(502, "proxy")>>

\* C22: the rewrite applied to its own output returns that output.
C22_RewriteIdempotent ==
    Len(rw.outs) = 2 => rw.outs[2] = rw.outs[1]

RECURSIVE RecognizedRewrite(_, _, _)
\* The body with the backend address replaced by the public host where it
\* stands in a recognized shape, and nothing else changed: after ws://, when
\* the address ends there (no further digit of a port follows), and between
\* "ws= or ?ws= and /devtools/.
RecognizedRewrite(s, addr, host) ==
    IF s = << >> THEN << >>
    ELSE IF /\ Len(s) >= 2 /\ SubSeq(s, 1, 2) = <<"ws://", addr>>
            /\ (Len(s) >= 3 => s[3] # "1")
         THEN <<"ws://">> \o host
                \o RecognizedRewrite(SubSeq(s, 3, Len(s)), addr, host)
    ELSE IF /\ Len(s) >= 4 /\ s[1] \in {"\"", "?"}
            /\ SubSeq(s, 2, 4) = <<"ws=", addr, "/devtools/">>
         THEN <<s[1], "ws=">> \o host \o <<"/devtools/">>
                \o RecognizedRewrite(SubSeq(s, 5, Len(s)), addr, host)
    ELSE <<Head(s)>> \o RecognizedRewrite(Tail(s), addr, host)

\* C23: the rewrite replaces the backend address by the public host in every
\* recognized shape and leaves the rest of the body as it was.
C23_RewriteOnlyRecognizedShapes ==
    Len(rw.outs) >= 1 =>
        rw.outs[1] = RecognizedRewrite(rw.body, ChromePattern("9223"), rw.host)

\* C24: a body that does not contain the backend address is returned as it
\* is.
C24_NoAddressNoChange ==
    (/\ Len(rw.outs) >= 1
     /\ \A i \in 1..Len(rw.body) : rw.body[i] # ChromePattern("9223"))
        => rw.outs[1] = rw.body

\* A body with ws:// and ws= shapes around other hosts, and no backend
\* address, came out unchanged.
C24_Witness ==
    /\ Len(rw.outs) >= 1
    /\ rw.body = <<"ws://", "x", "/devtools/", "?">>
    /\ rw.host = <<"example.com:7000">>
    /\ rw.outs[1] = rw.body

\* A plain forward has answered with the backend's response.
ForwardSucceeded ==
    /\ ppc = "done" /\ httpCalls = 1 /\ ferr = "none"
    /\ resp = <<Response(bstatus, "backend")>>

\* C21: after a successful plain forward the caller has the backend's
\* status, the backend's header as it was, and as body the rewrite of the
\* backend's body.
C21_SuccessRelaysRewrittenBody ==
    ForwardSucceeded =>
        /\ resp[1].status = bstatus
        /\ out.header = bresp.header
        /\ out.body = Rewrite(bresp.body, ChromePattern(ForwardedPort(res.vm)),
                              HostURL(out.host))

\* C25: with a running machine a that maps cdp/9223 to a host port, a plain
\* GET on /vm/a/json is sent to that host port, and the socket URL of the
\* backend's JSON reaches the caller with the caller's host in it.
C25_EndToEnd ==
    (/\ req.path = <<"vm", "a", "json">> /\ req.method = "GET"
     /\ ~req.upgrade
     /\ apiReply.kind = "ok" /\ Len(apiReply.vms) = 1
     /\ apiReply.vms[1].VMName = "a" /\ apiReply.vms[1].Status = "RUNNING"
     /\ Len(apiReply.vms[1].PortForwards) = 1
     /\ CdpMapping(apiReply.vms[1].PortForwards[1])
     /\ NoVmParam)
        => /\ \A k \in 1..Len(sent) :
                 sent[k].port = apiReply.vms[1].PortForwards[1].HostPort
           /\ (/\ ForwardSucceeded
               /\ bresp.body = <<"ws://", "127.0.0.1:9223", "/devtools/", "x">>)
                 => out.body = <<"ws://">> \o HostURL(out.host)
                                  \o <<"/devtools/", "x">>

\* C26: after a successful resolution a request with upgrade intent goes to
\* websocketProxy only (no client.Do, no HTTP response by proxyHandler), and
\* a request without it goes to the plain forward only (no upgrade, no dial).
C26_ExactlyOneMode ==
    (ProxyResolved /\ res.ok) =>
        /\ req.upgrade =>
              /\ httpCalls = 0 /\ resp = << >>
              /\ ppc \in {"check", "branch", "relay"}
              /\ \A k \in 1..Len(sent) : sent[k].scheme = "ws"
        /\ ~req.upgrade =>
              /\ hpc = "idle" /\ upgraded = "pending" /\ dials = 0
              /\ \A side \in Sides : conn[side] = "none"
              /\ ppc # "relay"
              /\ \A k \in 1..Len(sent) : sent[k].scheme = "http"

\* An upgrade request was resolved, upgraded and its backend dialed.
C26_Witness ==
    /\ ProxyResolved /\ res.ok /\ req.upgrade
    /\ upgraded = "ok" /\ dials = 1 /\ conn["chrome"] = "open"
    /\ Len(sent) = 1 /\ sent[1].scheme = "ws"
    /\ httpCalls = 0

\* C27: every resolved request has made its own listing call, and its
\* result is what discoverCDPPort returns for the listing answered to that
\* call, whatever was returned for the request before.
C27_FreshListingPerRequest ==
    ProxyResolved =>
        /\ listCalls = 1
        /\ res = discoverCDPPort(apiReply, reqName)

\* The request before was routed to machine a; the listing changed, and the
\* request without a name that followed is routed to machine b.
C27_Witness ==
    /\ served = 1 /\ prevRes.ok /\ prevRes.vm.VMName = "a"
    /\ ProxyResolved /\ reqName = ""
    /\ res.ok /\ res.vm.VMName = "b"
    /\ ppc = "branch"

\* C28: a step of one request or session, a failure included, changes the
\* state of no other request or session, and the process is never
\* terminated.
C28_FailureStaysInItsSession ==
    [][/\ \A i \in DOMAIN ss :
             ss'[i] # ss[i] => \A j \in DOMAIN ss \ {i} : ss'[j] = ss[j]
       /\ srv'.phase = "serving"
       /\ ~aborted']_vars

\* Session 1 ended on a failure in one of its tasks while session 2 relays
\* on, its completion channel open and both its tasks running.
C28_Witness ==
    /\ ss[1].pc = "over" /\ ss[1].err = "relay" /\ ss[1].done = "closed"
    /\ \E t \in Tasks : ss[1].tasks[t] = "ended"
    /\ ss[2].pc = "relay" /\ ss[2].done = "open"
    /\ \A t \in Tasks : ss[2].tasks[t] = "run"
    /\ ss[2].err = "none"
    /\ srv.phase = "serving" /\ ~aborted


\* C29: after a shutdown signal a plain forward in flight is cut off only
\* when the 30 s of grace are over, and an established relay session is
\* never cut off by the shutdown: it ends by a failure on one of its own
\* legs only.
C29_ShutdownSparesRelaySessions ==
    /\ srv.clock <= Grace
    /\ \A i \in DOMAIN ss :
         ss[i].kind = "plain" /\ ss[i].pc = "killed" => srv.clock = Grace
    /\ \A i \in DOMAIN ss :
         ss[i].kind = "upgrade" /\ ss[i].done # "nil" => ss[i].pc # "killed"

\* A read or a write of one of the two forwarding tasks returned an error or
\* panicked.
LegFailed == \E t \in Tasks : failed[t] \/ faulted[t]

C31_ContentLengthIsBodyLength ==
    (ForwardSucceeded /\ out.header.ContentLength # << >>)
        => /\ out.header.ContentLength[1] = ByteLen(out.written)
           /\ out.header.ContentLength[1] = ByteLen(out.body)

\* Index of the port forward whose guest port forms the rewrite pattern:
\* the first one with description "cdp", 0 if the default "9223" is used.
PatternForward(pfs) ==
    LET hits == {j \in 1..Len(pfs) : pfs[j].Description = "cdp"}
    IN  IF hits = {} THEN 0 ELSE CHOOSE j \in hits : \A k \in hits : j <= k

\* C32: after a successful resolution the port forward whose guest port
\* forms the rewrite pattern is the entry the resolution returned the host
\* port of.
C32_PatternFromSelectedMapping ==
    res.ok =>
        LET pfs == res.vm.PortForwards
            sel == FirstCDPForward(pfs)
        IN  /\ res.hostPort = pfs[sel].HostPort
            /\ PatternForward(pfs) = sel
            /\ ForwardedPort(res.vm) = pfs[sel].GuestPort

\* The backend address stands in the body only as the beginning of a longer
\* address: each time with a further digit of the port behind it.
OnlyLongerAddresses(body, addr) ==
    /\ \E i \in 1..Len(body) : body[i] = addr
    /\ \A i \in 1..Len(body) :
         body[i] = addr => (i < Len(body) /\ body[i + 1] = "1")

\* C33: a body in which the backend address occurs only as the prefix of a
\* longer address (127.0.0.1:92231 against 127.0.0.1:9223) is returned as it
\* is.
C33_LongerAddressUntouched ==
    (/\ Len(rw.outs) >= 1
     /\ OnlyLongerAddresses(rw.body, ChromePattern("9223")))
        => rw.outs[1] = rw.body

\* C34: a plain request to a proxied route that entered proxyHandler is
\* answered, whatever the control plane does with the listing call.
C34_DiscoveryCannotBlock ==
    (ppc = "discover" /\ Route(req) = "proxy" /\ ~req.upgrade)
        ~> (resp # << >>)

\* C35: a request without upgrade intent that proxyHandler handles gets
\* nothing before the handler is done and one status when it is: 503 after a
\* failed discovery, 502 after a failed forward, the backend's status
\* otherwise; no second status follows.
C35_ExactlyOneStatus ==
    (Route(req) = "proxy" /\ ~req.upgrade) =>
        /\ Len(resp) <= 1
        /\ ppc # "done" => resp = << >>
        /\ ppc = "done" =>
             resp = <<IF DiscoveryFailed THEN Response(503, "proxy")
                      ELSE IF ferr # "none" THEN Response(502, "proxy")
                      ELSE Response(bstatus, "backend")>>

\* The backend answered 404 and the caller got that status, once.
C35_Witness ==
    /\ Route(req) = "proxy" /\ ~req.upgrade
    /\ ppc = "done" /\ ferr = "none" /\ res.ok
    /\ bstatus = 404 /\ resp = <<Response(404, "backend")>>

\* Who is in a write call on connection s: the forwarding tasks that write
\* the message they hold to s, and the handler while it writes the close
\* frame of the dial failure to the inbound connection.
Writers(s) ==
    {t \in Tasks : tpc[t] = "write" /\ Dst(t) = s}
        \cup (IF hpc = "notify" /\ s = "client" THEN {"handler"} ELSE {})

\* C36: each connection of a session has at most one writer at a time; the
\* close frame of the dial failure is written while no forwarding task
\* exists, and all writes of a task go to one connection, not the one the
\* other task writes to.
C36_SingleWriterPerConnection ==
    /\ \A s \in Sides : Cardinality(Writers(s)) <= 1
    /\ hpc = "notify" => \A t \in Tasks : tpc[t] = "none"
    /\ ctlLog # << >> => \A t \in Tasks : tpc[t] = "none" /\ writeLog[t] = << >>
    /\ \A t \in Tasks : \A u \in Tasks \ {t} :
         (writeLog[t] # << >> /\ writeLog[u] # << >>) => Dst(t) # Dst(u)

\* Both tasks are in a write call at the same time, each on its own
\* connection.
C36_Witness ==
    /\ \A t \in Tasks : tpc[t] = "write"
    /\ \A s \in Sides : Cardinality(Writers(s)) = 1

\* A read or a write of the noVNC relay of part_002 returned an error: of
\* the goroutine, or of the handler in its loop.
VncLegFailed == \E t \in Tasks : failed[t]

\* The noVNC session of part_002 is over: the handler returned, both
\* connections are closed, the goroutine and the handler's loop ended.
VncOver ==
    /\ hpc = "closed"
    /\ \A s \in Sides : conn[s] = "closed"
    /\ \A t \in Tasks : tpc[t] = "exit"

\* C37: in the noVNC handler of part_002, once a read or a write on the
\* WebSocket or on the VNC connection failed, or a peer went away during the
\* relay, both connections are closed, the handler has returned and the
\* goroutine has ended, eventually.
C37_VncFailureEndsSession ==
    /\ VncLegFailed ~> VncOver
    /\ \A s \in Sides :
         (peer[s] = "gone" /\ hpc = "loop") ~> VncOver

\* The browser went away while the VNC server was up, and the session
\* ended: the goroutine closed the VNC connection under the handler's read.
C37_Witness ==
    /\ VncOver
    /\ peer["client"] = "gone" /\ peer["chrome"] = "up"
    /\ failed["c2b"] /\ failed["b2c"]

\* The key a getter is named after.
OwnKey(g) ==
    CASE g = "GetCodeServerConfig" -> codeServerConfigKey
      [] g = "GetNoVNCServerConfig" -> novncServerConfigKey
      [] OTHER -> cdpServerConfigKey

\* C38: a getter called on a readable file returns the port configured in
\* the section it is named after, and an error when that section is
\* missing.
C38_GetterReadsOwnSection ==
    (cfg.getter # "none" /\ cfg.readable) =>
        LET own == cfg.file[OwnKey(cfg.getter)]
        IN  /\ cfg.result.ok <=> own.present
            /\ cfg.result.ok => cfg.result.Port = own.port
            /\ ~own.present => cfg.result.err # ""
=============================================================================
